---- MODULE Spec2Model ----
(***************************************************************************)
(* Round-based market simulation: agents (price beliefs, demand, cash),    *)
(* factories (supply range, stock window, ledger) and the market's round   *)
(* engine (one worker per product, barrier, settlement, UBI, termination). *)
(*                                                                         *)
(* Money and prices are f64 in the source.  Here they are fixed-point      *)
(* integers in thousandths of a currency unit (1.0 = 1000, one cent = 10), *)
(* so round_to_nearest_cent is a real rounding and not the identity.       *)
(* Probabilities and ratios are in hundredths (0.1 = 10, 1% = 1).          *)
(* TLC's integers are 32-bit: products are arranged to stay below 2^31.    *)
(***************************************************************************)
EXTENDS Integers, Sequences, FiniteSets, TLC

(* ----------------------------------------------------------------------- *)
(* Fixed-point helpers                                                     *)
(* ----------------------------------------------------------------------- *)
Max(a, b) == IF a >= b THEN a ELSE b
Min(a, b) == IF a <= b THEN a ELSE b

\* floor of n / d for d > 0 and any integer n
FloorDiv(n, d) == IF n >= 0 THEN n \div d ELSE -((-n + d - 1) \div d)

\* f64::round of the rational n / d (d > 0, d even) to an integer: half away
\* from zero
RoundQ(n, d) == IF n >= 0 THEN (n + d \div 2) \div d
                ELSE -(((-n) + d \div 2) \div d)

\* floor of x * m / (100 * d) for x, m >= 0 and d > 0, without forming x * m
MulDivFloor(x, m, d) == ((x \div 100) * m + ((x % 100) * m) \div 100) \div d

\* (x * 100.0).round() / 100.0 for the rational x = n / d thousandths
RoundCentQ(n, d) == 10 * RoundQ(n, 10 * d)

round_to_nearest_cent(x) == RoundCentQ(x, 1)

(* ----------------------------------------------------------------------- *)
(* util.rs: range arithmetic                                               *)
(* ----------------------------------------------------------------------- *)
\* shrink_rate in hundredths
gen_new_range_with_price(price, old_range, shrink_rate) ==
    LET old_min == old_range[1]
        old_max == old_range[2]
        width == round_to_nearest_cent(old_max - old_min)
        new_half_width == RoundCentQ(width * shrink_rate, 200)
        new_min == Max(round_to_nearest_cent(price - new_half_width), 0)
        new_max0 == round_to_nearest_cent(price + new_half_width)
        new_max == IF new_max0 <= new_min THEN new_min + 10 ELSE new_max0
    IN  <<new_min, new_max>>

\* rate in hundredths, may be negative
shift_range_by_ratio(old_range, rate) ==
    LET new_max0 == RoundCentQ(old_range[2] * (100 + rate), 100)
        new_min == IF old_range[1] * (100 + rate) < 0 THEN 0
                   ELSE RoundCentQ(old_range[1] * (100 + rate), 100)
        new_max == IF new_max0 <= new_min THEN new_min + 10 ELSE new_max0
    IN  <<new_min, new_max>>

(* ----------------------------------------------------------------------- *)
(* agent.rs: TradeResult, IntervalRelation, Agent                          *)
(* ----------------------------------------------------------------------- *)
\* enum values are <<tag, payload>>; the payload is 0 for a unit variant
NotYet == <<"NotYet", 0>>
NotMatched == <<"NotMatched", 0>>
Failed == <<"Failed", 0>>
Success(p) == <<"Success", p>>

Overlapping(p) == <<"Overlapping", p>>
AgentBelowFactory == <<"AgentBelowFactory", 0>>
AgentAboveFactory == <<"AgentAboveFactory", 0>>
CashBurnedOut == <<"CashBurnedOut", 0>>
NoRelation == <<"None", 0>>

has_demand(a, product_id) == product_id \in a.demand

\* a logger call whose Err leaves the function before its change is applied
logged_aborting(ok, before, after) == IF ok THEN after ELSE before

\* `if let Err(e) = logger.log_...(..) { eprintln!(..) }` beside a change:
\* ok is the sink's answer, before and after the state without and with the
\* change; the error is printed and the change applied
logged(ok, before, after) == after

\* negotiate without the cash check
negotiate_ignoring_cash(a, product_id, price) ==
    IF ~has_demand(a, product_id) THEN <<NotMatched, AgentBelowFactory>>
    ELSE LET lower == a.preferences[product_id].current_range[1]
             upper == a.preferences[product_id].current_range[2]
         IN  IF price < lower THEN <<Failed, AgentAboveFactory>>
             ELSE IF price > upper THEN <<Failed, AgentBelowFactory>>
             ELSE <<Success(price), Overlapping(price)>>

\* negotiate with the range compared before the cash check
negotiate_range_first(a, product_id, price) ==
    IF ~has_demand(a, product_id) THEN <<NotMatched, AgentBelowFactory>>
    ELSE LET lower == a.preferences[product_id].current_range[1]
             upper == a.preferences[product_id].current_range[2]
         IN  IF price < lower THEN <<Failed, AgentAboveFactory>>
             ELSE IF price > upper THEN <<Failed, AgentBelowFactory>>
             ELSE IF a.cash < price THEN <<Failed, CashBurnedOut>>
             ELSE <<Success(price), Overlapping(price)>>

\* the (TradeResult, IntervalRelation) pair negotiate returns
negotiate(a, product_id, price) ==
    IF ~has_demand(a, product_id) THEN <<NotMatched, AgentBelowFactory>>
    ELSE IF a.cash < price THEN <<Failed, CashBurnedOut>>
    ELSE LET lower == a.preferences[product_id].current_range[1]
             upper == a.preferences[product_id].current_range[2]
             interval_relation ==
                 IF price < lower THEN AgentAboveFactory
                 ELSE IF price > upper THEN AgentBelowFactory
                 ELSE Overlapping(price)
         IN  IF interval_relation[1] = "Overlapping"
             THEN <<Success(interval_relation[2]), interval_relation>>
             ELSE <<Failed, interval_relation>>

\* a negotiate that pays on the spot when the price is accepted
agent_after_negotiate_paying(a, product_id, price) ==
    IF has_demand(a, product_id) /\ a.cash >= price
       /\ a.preferences[product_id].current_range[1] <= price
       /\ price <= a.preferences[product_id].current_range[2]
    THEN [a EXCEPT !.cash = @ - price]
    ELSE a

\* negotiate takes &self: the agent it leaves behind
agent_after_negotiate(a, product_id, price) == a

set_preference_detail(a, product_id, price, range) ==
    [a EXCEPT !.preferences[product_id].current_price = price,
              !.preferences[product_id].current_range = range]

remove_demand(a, product_id) ==
    [a EXCEPT !.demand = @ \ {product_id}]

RECURSIVE MinPrice(_, _)
MinPrice(m, prices) ==
    IF prices = <<>> THEN m
    ELSE MinPrice(Min(m, Head(prices)), Tail(prices))

\* a failure handling that reshapes the range before it gives the demand up
handle_trade_failure_reshaping_first(a, product_id, interval_relation, offered_price, random_value) ==
    LET preference == a.preferences[product_id]
        above_count == Cardinality({i \in DOMAIN offered_price :
                            offered_price[i] > preference.current_range[2]})
        lower_count == Cardinality({i \in DOMAIN offered_price :
                            offered_price[i] < preference.current_range[1]})
        min_price == MinPrice(preference.current_price, offered_price)
        new_range ==
            IF above_count > 0 /\ lower_count > 0
            THEN gen_new_range_with_price(min_price, preference.current_range, 20)
            ELSE IF lower_count > 0
            THEN gen_new_range_with_price(min_price,
                     shift_range_by_ratio(preference.current_range, -10), 10)
            ELSE IF above_count > 0
            THEN gen_new_range_with_price(min_price,
                     shift_range_by_ratio(preference.current_range, 10), 10)
            ELSE preference.current_range
        reshaped == IF interval_relation = CashBurnedOut THEN a
                    ELSE set_preference_detail(a, product_id, min_price, new_range)
    IN  IF random_value < preference.original_elastic
        THEN remove_demand(reshaped, product_id)
        ELSE reshaped

\* a failure handling without the early return on CashBurnedOut
handle_trade_failure_reshaping_cash_burn(a, product_id, interval_relation, offered_price, random_value) ==
    LET preference == a.preferences[product_id]
        above_count == Cardinality({i \in DOMAIN offered_price :
                            offered_price[i] > preference.current_range[2]})
        lower_count == Cardinality({i \in DOMAIN offered_price :
                            offered_price[i] < preference.current_range[1]})
        min_price == MinPrice(preference.current_price, offered_price)
        new_range ==
            IF above_count > 0 /\ lower_count > 0
            THEN gen_new_range_with_price(min_price, preference.current_range, 20)
            ELSE IF lower_count > 0
            THEN gen_new_range_with_price(min_price,
                     shift_range_by_ratio(preference.current_range, -10), 10)
            ELSE IF above_count > 0
            THEN gen_new_range_with_price(min_price,
                     shift_range_by_ratio(preference.current_range, 10), 10)
            ELSE preference.current_range
    IN  IF random_value < preference.original_elastic
        THEN remove_demand(a, product_id)
        ELSE set_preference_detail(a, product_id, min_price, new_range)

\* random_value is the draw of rng.gen_range(0.0..1.0), in hundredths
handle_trade_failure(a, product_id, interval_relation, offered_price, random_value) ==
    LET preference == a.preferences[product_id]
        delete_probability == preference.original_elastic
        above_count == Cardinality({i \in DOMAIN offered_price :
                            offered_price[i] > preference.current_range[2]})
        lower_count == Cardinality({i \in DOMAIN offered_price :
                            offered_price[i] < preference.current_range[1]})
        min_price == MinPrice(preference.current_price, offered_price)
        new_range ==
            IF above_count > 0 /\ lower_count > 0
            THEN gen_new_range_with_price(min_price, preference.current_range, 20)
            ELSE IF lower_count > 0
            THEN gen_new_range_with_price(min_price,
                     shift_range_by_ratio(preference.current_range, -10), 10)
            ELSE IF above_count > 0
            THEN gen_new_range_with_price(min_price,
                     shift_range_by_ratio(preference.current_range, 10), 10)
            ELSE preference.current_range
    IN  IF random_value < delete_probability THEN remove_demand(a, product_id)
        ELSE IF interval_relation = CashBurnedOut THEN a
        ELSE set_preference_detail(a, product_id, min_price, new_range)

\* a success handling whose new lower bound is not clamped at 0
handle_trade_success_unclamped(a, product_id, price) ==
    LET old_range == a.preferences[product_id].current_range
        old_length == old_range[2] - old_range[1]
        min_len == Max(FloorDiv(price * 5, 100), 100)
        new_length == Max(FloorDiv(old_length * 9, 10), min_len)
        new_lower == price - FloorDiv(new_length, 2)
        new_upper == Max(Max(price + FloorDiv(new_length, 2), 0), new_lower + 100)
    IN  [a EXCEPT !.cash = @ - price,
                  !.preferences[product_id].current_price = price,
                  !.preferences[product_id].current_range = <<new_lower, new_upper>>]

\* a success handling that leaves the agent's cash alone
handle_trade_success_unpaid(a, product_id, price) ==
    LET old_range == a.preferences[product_id].current_range
        old_length == old_range[2] - old_range[1]
        min_len == Max(FloorDiv(price * 5, 100), 100)
        new_length == Max(FloorDiv(old_length * 9, 10), min_len)
        new_lower == Max(price - FloorDiv(new_length, 2), 0)
        new_upper == Max(Max(price + FloorDiv(new_length, 2), 0), new_lower + 100)
    IN  [a EXCEPT !.preferences[product_id].current_price = price,
                  !.preferences[product_id].current_range = <<new_lower, new_upper>>]

handle_trade_success(a, product_id, price) ==
    LET old_range == a.preferences[product_id].current_range
        old_length == old_range[2] - old_range[1]
        min_len == Max(FloorDiv(price * 5, 100), 100)
        new_length == Max(FloorDiv(old_length * 9, 10), min_len)
        new_lower == Max(price - FloorDiv(new_length, 2), 0)
        new_upper == Max(Max(price + FloorDiv(new_length, 2), 0), new_lower + 100)
    IN  [a EXCEPT !.cash = @ - price,
                  !.preferences[product_id].current_price = price,
                  !.preferences[product_id].current_range = <<new_lower, new_upper>>]

\* Agent::income: the amount is the draw of rng.gen_range(range.0..range.1)
income(a, amount) == [a EXCEPT !.cash = @ + amount]

(* ----------------------------------------------------------------------- *)
(* factory/financial_bill.rs, factory/accountant.rs                        *)
(* ----------------------------------------------------------------------- *)
\* FinancialBill::new(cash)
FinancialBill(cash) ==
    [cash |-> cash, units_sold |-> 0, revenue |-> 0, total_stock |-> 0,
     total_production |-> 0, initial_stock |-> 0, rot_stock |-> 0,
     remaining_stock |-> 0, production_cost |-> 0, profit |-> 0]

\* a HashMap<u64, V> is a function whose domain is the set of keys
MapInsert(m, k, v) == [x \in DOMAIN m \cup {k} |-> IF x = k THEN v ELSE m[x]]
MapRemove(m, k) == [x \in DOMAIN m \ {k} |-> m[x]]

\* Accountant::new(cash): the bill of moment 0 and the moment queue
AccountantNew(cash) ==
    [bills |-> MapInsert(<<>>, 0, FinancialBill(cash)), moments |-> <<0>>]

add_bill(acc, moment, bill) ==
    LET bills1 == MapInsert(acc.bills, moment, bill)
        moments1 == Append(acc.moments, moment)
    IN  IF Len(moments1) > 20
        THEN [bills |-> MapRemove(bills1, Head(moments1)), moments |-> Tail(moments1)]
        ELSE [bills |-> bills1, moments |-> moments1]

\* entry(round).or_insert_with(FinancialBill::new(0.0)): the accountant afterwards
get_bill_or_default(acc, round) ==
    IF round \in DOMAIN acc.bills THEN acc
    ELSE [acc EXCEPT !.bills = MapInsert(acc.bills, round, FinancialBill(0))]

(* ----------------------------------------------------------------------- *)
(* factory.rs                                                              *)
(* ----------------------------------------------------------------------- *)
U16Max == 65535

\* `x as u16` of a non-negative f64 given as the rational n / d: truncates, saturates
AsU16(n, d) == IF n <= 0 THEN 0 ELSE Min(n \div d, U16Max)

\* a get_stock that answers the default whatever the round's entry holds
get_stock_always_default(f, round) == 10

get_stock(f, round) == IF round \in DOMAIN f.amount THEN f.amount[round] ELSE 10

\* a start_round that never evicts a round from the stock window
start_round_without_eviction(f, round) ==
    LET acc1 == get_bill_or_default(f.accountant, round - 1)
        last_bill == acc1.bills[round - 1]
        prediction_production ==
            IF last_bill.initial_stock = 0 THEN 1
            ELSE IF last_bill.remaining_stock = 0
            THEN AsU16(last_bill.initial_stock * (1100 + 4 * f.risk_appetite), 1000)
            ELSE Max(last_bill.total_production, 1)
        need_production ==
            Min(prediction_production,
                AsU16(MulDivFloor(f.cash, f.risk_appetite, f.product_cost), 1))
        initial_stock == last_bill.remaining_stock + need_production
        cash == f.cash - need_production * f.product_cost
        acc2 == get_bill_or_default(acc1, round)
        bill == [acc2.bills[round] EXCEPT !.cash = cash,
                                          !.initial_stock = initial_stock,
                                          !.total_production = need_production]
    IN  [f EXCEPT !.initial_stock = initial_stock,
                  !.cash = cash,
                  !.accountant = [acc2 EXCEPT !.bills[round] = bill],
                  !.amount = MapInsert(f.amount, round, initial_stock),
                  !.u64_list = Append(f.u64_list, round)]

\* a start_round that scales production up whether or not stock remained
start_round_always_scaling(f, round) ==
    LET acc1 == get_bill_or_default(f.accountant, round - 1)
        last_bill == acc1.bills[round - 1]
        prediction_production ==
            IF last_bill.initial_stock = 0 THEN 1
            ELSE AsU16(last_bill.initial_stock * (1100 + 4 * f.risk_appetite), 1000)
        need_production ==
            Min(prediction_production,
                AsU16(MulDivFloor(f.cash, f.risk_appetite, f.product_cost), 1))
        initial_stock == last_bill.remaining_stock + need_production
        cash == f.cash - need_production * f.product_cost
        acc2 == get_bill_or_default(acc1, round)
        bill == [acc2.bills[round] EXCEPT !.cash = cash,
                                          !.initial_stock = initial_stock,
                                          !.total_production = need_production]
        amount1 == MapInsert(f.amount, round, initial_stock)
        list1 == Append(f.u64_list, round)
    IN  [f EXCEPT !.initial_stock = initial_stock,
                  !.cash = cash,
                  !.accountant = [acc2 EXCEPT !.bills[round] = bill],
                  !.amount = IF Len(list1) > 3 THEN MapRemove(amount1, Head(list1))
                             ELSE amount1,
                  !.u64_list = IF Len(list1) > 3 THEN Tail(list1) ELSE list1]

\* a start_round that starts the round with the new production only
start_round_dropping_stock(f, round) ==
    LET acc1 == get_bill_or_default(f.accountant, round - 1)
        last_bill == acc1.bills[round - 1]
        last_round_initial_stock == last_bill.initial_stock
        last_round_remaining_stock == last_bill.remaining_stock
        prediction_production ==
            IF last_round_initial_stock = 0 THEN 1
            ELSE IF last_round_remaining_stock = 0
            THEN AsU16(last_round_initial_stock * (1100 + 4 * f.risk_appetite), 1000)
            ELSE Max(last_bill.total_production, 1)
        production_under_budget ==
            AsU16(MulDivFloor(f.cash, f.risk_appetite, f.product_cost), 1)
        need_production == Min(prediction_production, production_under_budget)
        initial_stock == need_production
        cost == need_production * f.product_cost
        cash == f.cash - cost
        acc2 == get_bill_or_default(acc1, round)
        bill == [acc2.bills[round] EXCEPT !.cash = cash,
                                          !.initial_stock = initial_stock,
                                          !.total_production = need_production]
        amount1 == MapInsert(f.amount, round, initial_stock)
        list1 == Append(f.u64_list, round)
    IN  [f EXCEPT !.initial_stock = initial_stock,
                  !.cash = cash,
                  !.accountant = [acc2 EXCEPT !.bills[round] = bill],
                  !.amount = IF Len(list1) > 3 THEN MapRemove(amount1, Head(list1))
                             ELSE amount1,
                  !.u64_list = IF Len(list1) > 3 THEN Tail(list1) ELSE list1]

\* a start_round that produces its plan whatever the budget allows
start_round_without_budget(f, round) ==
    LET acc1 == get_bill_or_default(f.accountant, round - 1)
        last_bill == acc1.bills[round - 1]
        last_round_initial_stock == last_bill.initial_stock
        last_round_remaining_stock == last_bill.remaining_stock
        prediction_production ==
            IF last_round_initial_stock = 0 THEN 1
            ELSE IF last_round_remaining_stock = 0
            THEN AsU16(last_round_initial_stock * (1100 + 4 * f.risk_appetite), 1000)
            ELSE Max(last_bill.total_production, 1)
        production_under_budget ==
            AsU16(MulDivFloor(f.cash, f.risk_appetite, f.product_cost), 1)
        need_production == prediction_production
        initial_stock == last_round_remaining_stock + need_production
        cost == need_production * f.product_cost
        cash == f.cash - cost
        acc2 == get_bill_or_default(acc1, round)
        bill == [acc2.bills[round] EXCEPT !.cash = cash,
                                          !.initial_stock = initial_stock,
                                          !.total_production = need_production]
        amount1 == MapInsert(f.amount, round, initial_stock)
        list1 == Append(f.u64_list, round)
    IN  [f EXCEPT !.initial_stock = initial_stock,
                  !.cash = cash,
                  !.accountant = [acc2 EXCEPT !.bills[round] = bill],
                  !.amount = IF Len(list1) > 3 THEN MapRemove(amount1, Head(list1))
                             ELSE amount1,
                  !.u64_list = IF Len(list1) > 3 THEN Tail(list1) ELSE list1]

start_round(f, round) ==
    LET acc1 == get_bill_or_default(f.accountant, round - 1)
        last_bill == acc1.bills[round - 1]
        last_round_initial_stock == last_bill.initial_stock
        last_round_remaining_stock == last_bill.remaining_stock
        prediction_production ==
            IF last_round_initial_stock = 0 THEN 1
            ELSE IF last_round_remaining_stock = 0
            THEN AsU16(last_round_initial_stock * (1100 + 4 * f.risk_appetite), 1000)
            ELSE Max(last_bill.total_production, 1)
        production_under_budget ==
            AsU16(MulDivFloor(f.cash, f.risk_appetite, f.product_cost), 1)
        need_production == Min(prediction_production, production_under_budget)
        initial_stock == last_round_remaining_stock + need_production
        cost == need_production * f.product_cost
        cash == f.cash - cost
        acc2 == get_bill_or_default(acc1, round)
        bill == [acc2.bills[round] EXCEPT !.cash = cash,
                                          !.initial_stock = initial_stock,
                                          !.total_production = need_production]
        amount1 == MapInsert(f.amount, round, initial_stock)
        list1 == Append(f.u64_list, round)
    IN  [f EXCEPT !.initial_stock = initial_stock,
                  !.cash = cash,
                  !.accountant = [acc2 EXCEPT !.bills[round] = bill],
                  !.amount = IF Len(list1) > 3 THEN MapRemove(amount1, Head(list1))
                             ELSE amount1,
                  !.u64_list = IF Len(list1) > 3 THEN Tail(list1) ELSE list1]

factory_shift_range_by_ratio(range, min_cost, ratio) ==
    LET shifted == shift_range_by_ratio(range, ratio)
        lower == shifted[1]
        upper == shifted[2]
    IN  IF lower < min_cost THEN <<min_cost, min_cost + (upper - lower)>>
        ELSE <<lower, upper>>

\* a ratio table that lowers the range on every failure
get_range_change_ratio_always_down(interval_relation, cash_burned_ratio) ==
    IF interval_relation = CashBurnedOut THEN cash_burned_ratio ELSE -1

\* the ratio in hundredths; the source has no arm for CashBurnedOut, whose ratio
\* is the caller's cash_burned_ratio
get_range_change_ratio(interval_relation, cash_burned_ratio) ==
    IF interval_relation = NoRelation THEN -1
    ELSE IF interval_relation[1] = "Overlapping" THEN -1
    ELSE IF interval_relation = AgentBelowFactory THEN -1
    ELSE IF interval_relation = AgentAboveFactory THEN 1
    ELSE cash_burned_ratio

\* a deal whose Success credits the cash but leaves the stock as it was
deal_keeps_stock(f, result, round, interval_relation, cash_burned_ratio) ==
    IF round \in DOMAIN f.amount /\ f.amount[round] <= 0 THEN f
    ELSE IF result = NotMatched \/ result = NotYet THEN f
    ELSE IF result = Failed
    THEN [f EXCEPT !.supply_price_range =
             factory_shift_range_by_ratio(f.supply_price_range, f.product_cost,
                 get_range_change_ratio(interval_relation, cash_burned_ratio))]
    ELSE [f EXCEPT !.supply_price_range =
                       factory_shift_range_by_ratio(f.supply_price_range,
                                                    f.product_cost, 1),
                   !.cash = @ + result[2]]

\* a deal that treats NotMatched and NotYet as a failure
deal_shifting_unmatched(f, result, round, interval_relation, cash_burned_ratio) ==
    IF round \in DOMAIN f.amount /\ f.amount[round] <= 0 THEN f
    ELSE IF result[1] # "Success"
    THEN [f EXCEPT !.supply_price_range =
             factory_shift_range_by_ratio(f.supply_price_range, f.product_cost,
                 get_range_change_ratio(interval_relation, cash_burned_ratio))]
    ELSE [f EXCEPT !.supply_price_range =
                       factory_shift_range_by_ratio(f.supply_price_range,
                                                    f.product_cost, 1),
                   !.amount = IF round \in DOMAIN f.amount
                              THEN [f.amount EXCEPT ![round] = @ - 1]
                              ELSE f.amount,
                   !.cash = @ + result[2]]

\* a deal without the check of the round's stock
deal_ignoring_stock(f, result, round, interval_relation, cash_burned_ratio) ==
    IF result = NotMatched \/ result = NotYet THEN f
    ELSE IF result = Failed
    THEN [f EXCEPT !.supply_price_range =
             factory_shift_range_by_ratio(f.supply_price_range, f.product_cost,
                 get_range_change_ratio(interval_relation, cash_burned_ratio))]
    ELSE [f EXCEPT !.supply_price_range =
                       factory_shift_range_by_ratio(f.supply_price_range,
                                                    f.product_cost, 1),
                   !.amount = IF round \in DOMAIN f.amount
                              THEN [f.amount EXCEPT ![round] = @ - 1]
                              ELSE f.amount,
                   !.cash = @ + result[2]]

deal(f, result, round, interval_relation, cash_burned_ratio) ==
    IF round \in DOMAIN f.amount /\ f.amount[round] <= 0 THEN f
    ELSE IF result = NotMatched \/ result = NotYet THEN f
    ELSE IF result = Failed
    THEN [f EXCEPT !.supply_price_range =
             factory_shift_range_by_ratio(f.supply_price_range, f.product_cost,
                 get_range_change_ratio(interval_relation, cash_burned_ratio))]
    ELSE [f EXCEPT !.supply_price_range =
                       factory_shift_range_by_ratio(f.supply_price_range,
                                                    f.product_cost, 1),
                   !.amount = IF round \in DOMAIN f.amount
                              THEN [f.amount EXCEPT ![round] = @ - 1]
                              ELSE f.amount,
                   !.cash = @ + result[2]]

\* a settling that leaves the rotten units in the bill's remaining stock
settling_after_round_keeping_rot(f, round) ==
    LET acc1 == get_bill_or_default(f.accountant, round)
        bill == acc1.bills[round]
        remaining_stock == IF round \in DOMAIN f.amount THEN f.amount[round] ELSE 0
        rot_stock == AsU16(remaining_stock * (100 - f.durability), 100)
        sales_amount == Max(bill.initial_stock - remaining_stock, 0)
        revenue == bill.cash - f.cash
        closed == [bill EXCEPT !.rot_stock = rot_stock,
                               !.units_sold = sales_amount,
                               !.revenue = revenue,
                               !.cash = f.cash,
                               !.remaining_stock = remaining_stock,
                               !.profit = revenue
                                   - (sales_amount + rot_stock) * f.product_cost]
    IN  [f EXCEPT !.accountant = [acc1 EXCEPT !.bills[round] = closed]]

settling_after_round(f, round) ==
    LET acc1 == get_bill_or_default(f.accountant, round)
        bill == acc1.bills[round]
        remaining_stock == IF round \in DOMAIN f.amount THEN f.amount[round] ELSE 0
        rot_stock == AsU16(remaining_stock * (100 - f.durability), 100)
        sales_amount == Max(bill.initial_stock - remaining_stock, 0)
        revenue == bill.cash - f.cash
        units_gone == sales_amount + rot_stock
        cost_of_goods_gone == units_gone * f.product_cost
        closed == [bill EXCEPT !.rot_stock = rot_stock,
                               !.units_sold = sales_amount,
                               !.revenue = revenue,
                               !.cash = f.cash,
                               !.remaining_stock = remaining_stock - rot_stock,
                               !.profit = revenue - cost_of_goods_gone]
    IN  [f EXCEPT !.accountant = [acc1 EXCEPT !.bills[round] = closed]]

\* Factory::new with its random draws and the product's samples as arguments
FactoryNew(lower, upper, product_cost, cash, durability, risk_appetite) ==
    [supply_price_range |-> <<lower, upper>>,
     amount |-> <<>>,
     u64_list |-> <<>>,
     accountant |-> AccountantNew(cash),
     product_cost |-> product_cost,
     remaining_stock |-> 0,
     durability |-> durability,
     cash |-> cash,
     initial_stock |-> 0,
     risk_appetite |-> risk_appetite]

(* ----------------------------------------------------------------------- *)
(* agent/preference.rs, Agent::new                                         *)
(* ----------------------------------------------------------------------- *)
\* Preference::from_product with its samples and draws as arguments
from_product(original_price, original_elastic, min, max) ==
    [original_price |-> original_price,
     original_elastic |-> original_elastic,
     current_price |-> original_price,
     current_range |-> <<min, max>>]

\* Agent::new: empty demand, one Preference per product of the catalog
AgentNew(cash, prefs) == [cash |-> cash, demand |-> {}, preferences |-> prefs]

(* ----------------------------------------------------------------------- *)
(* market.rs: the negotiation loop of process_product_trades and settling  *)
(* ----------------------------------------------------------------------- *)
\* a negotiation loop that hands on only the price it negotiated last
RECURSIVE negotiate_loop_last_offer(_, _, _, _)
negotiate_loop_last_offer(product_id, prices, i, acc) ==
    IF i > Len(prices) THEN acc
    ELSE LET r == negotiate(acc.agent, product_id, prices[i])
             acc1 == [agent |-> acc.agent,
                      results |-> Append(acc.results, r),
                      offered |-> <<prices[i]>>,
                      deal_index |-> acc.deal_index]
         IN  IF r[1] = Success(prices[i])
             THEN [acc1 EXCEPT !.deal_index = i]
             ELSE negotiate_loop_last_offer(product_id, prices, i + 1, acc1)

\* a negotiation loop that goes through every offer and keeps the last Success
RECURSIVE negotiate_loop_to_the_end(_, _, _, _)
negotiate_loop_to_the_end(product_id, prices, i, acc) ==
    IF i > Len(prices) THEN acc
    ELSE LET r == negotiate(acc.agent, product_id, prices[i])
             acc1 == [agent |-> acc.agent,
                      results |-> Append(acc.results, r),
                      offered |-> Append(acc.offered, prices[i]),
                      deal_index |-> IF r[1] = Success(prices[i]) THEN i
                                     ELSE acc.deal_index]
         IN  negotiate_loop_to_the_end(product_id, prices, i + 1, acc1)

\* lines 298-319: negotiate the offers in order, stop at the first Success.
\* The result is [agent, results, offered, deal_index], deal_index = 0 for
\* None, agent the agent the calls leave behind.
RECURSIVE negotiate_loop(_, _, _, _)
negotiate_loop(product_id, prices, i, acc) ==
    IF i > Len(prices) THEN acc
    ELSE LET r == negotiate(acc.agent, product_id, prices[i])
             acc1 == [agent |-> agent_after_negotiate(acc.agent, product_id,
                                                      prices[i]),
                      results |-> Append(acc.results, r),
                      offered |-> Append(acc.offered, prices[i]),
                      deal_index |-> acc.deal_index]
         IN  IF r[1] = Success(prices[i])
             THEN [acc1 EXCEPT !.deal_index = i]
             ELSE negotiate_loop(product_id, prices, i + 1, acc1)

negotiate_offers(a, product_id, prices) ==
    negotiate_loop(product_id, prices, 1,
                   [agent |-> a, results |-> <<>>, offered |-> <<>>,
                    deal_index |-> 0])

\* Agent::settling as the market calls it (product, result, offered prices):
\* exactly one of the two handlers
settling(a, product_id, result, interval_relation, offered_prices, random_value) ==
    IF result[1] = "Success"
    THEN handle_trade_success(a, product_id, result[2])
    ELSE handle_trade_failure(a, product_id, interval_relation, offered_prices,
                              random_value)

\* the relations a failed round can hand to the failure handler: those the
\* round's negotiations returned (AgentBelowFactory when nothing was offered)
FailureRelations(results) ==
    IF results = <<>> THEN {AgentBelowFactory}
    ELSE {results[i][2] : i \in DOMAIN results}

(* ----------------------------------------------------------------------- *)
(* Bounds and input sets                                                   *)
(* ----------------------------------------------------------------------- *)
\* how many operations a single-agent or single-factory run applies
MaxSteps == 3

\* the offers of one round: at most 3 prices (factory_list.len().min(3))
MaxOffers == 3

\* draws of rng.gen_range(0.0..1.0), hundredths
RandomValues == {0, 50, 99}

\* samples of the elasticity distribution, clamped to [0.01, 1.0]
Elasticities == {1, 50, 100}

\* prices a factory may offer to the single agent
OfferPrices == {2000, 5000, 13000}

\* sample of the price distribution and the draws of the initial range:
\* min in [0, 0.75 * price), max in [min, 1.5 * price)
UnitOriginalPrices == {10000}
PrefLowerDraws == {0, 4000}
PrefUpperDraws == {4000, 12000}

UnitCashes == {3000, 30000}

\* draws of ubi's gen_range(800.0..1200.0)
IncomeDraws == {800000, 1199990}

\* non-decreasing price lists of length 0..MaxOffers (range_factory_list sorts)
SortedOffers(prices) ==
    {s \in UNION {[1..n -> prices] : n \in 0..MaxOffers} :
        \A i \in 1..(Len(s) - 1) : s[i] <= s[i + 1]}

VARIABLES
    ua,      \* the agent of the single-agent specification
    uobs,    \* the last operation applied to ua: its inputs, pre-state, output
    usteps,  \* operations applied so far
    uf,      \* the factory of the single-factory specification
    ufobs,   \* the last operation applied to uf: its inputs and pre-state
    ufround, \* the round the factory is in (0 before the first start_round)
    ufphase, \* "idle" between rounds, "open" from start_round to settlement
    ufdeals, \* deals applied in the current round
    ustarted \* history: the rounds start_round was called with, in call order

\* the factory list handed to range_factory_list and the list it returns
VARIABLES
    ofactories, \* factory id -> Factory: the list handed in
    oinfos,     \* the returned list of <<price, factory id>>
    ocalled     \* TRUE once range_factory_list has returned

\* the market of Market::run
VARIABLES
    round,                   \* run's round counter
    total_trades,            \* run's total_trades
    consecutive_zero_trades, \* Market.consecutive_zero_trades
    round_trades,            \* the round's shared trade counter
    mpc,                     \* where the main thread is in run's loop
    agent_list,              \* Market.agents: the agent ids in list order
    agents,                  \* agent id -> Agent
    factories,               \* factory id -> Factory
    wk,                      \* product id -> the worker thread of the round
    agents_lock,             \* readers of the RwLock around the agent list
    agent_lock,              \* agent id -> the worker holding its write lock, or 0
    factory_lock,            \* product id -> TRUE while its worker holds the list
    preferences_lock,        \* agent id -> readers of Agent.preferences
    dpc,                     \* agent id -> where its desire thread is
    new_demand,              \* agent id -> its desire thread's new_demand
    desire_cycles,           \* agent id -> iterations its desire thread began
    phase_done,              \* history: the last round each main phase completed for
    logger_ok                \* LOGGER: FALSE when the sink answers Err to every event

agentVars == <<ua, uobs, usteps>>
factoryVars == <<uf, ufobs, ufround, ufphase, ufdeals, ustarted>>
marketVars == <<round, total_trades, consecutive_zero_trades, round_trades, mpc,
                agent_list, agents, factories, wk, agents_lock, agent_lock,
                factory_lock, preferences_lock, dpc, new_demand, desire_cycles,
                phase_done, logger_ok>>
offerVars == <<ofactories, oinfos, ocalled>>
\* what the market's actions leave alone
unitVars == <<agentVars, factoryVars, offerVars, logger_ok>>
vars == <<agentVars, factoryVars, offerVars, marketVars>>

\* range_factory_list while another specification runs
OffersIdle ==
    /\ ofactories = <<>>
    /\ oinfos = <<>>
    /\ ocalled = FALSE

\* the market while a single-agent or single-factory specification runs
MarketIdle ==
    /\ round = 0
    /\ total_trades = 0
    /\ consecutive_zero_trades = 0
    /\ round_trades = 0
    /\ mpc = "off"
    /\ agent_list = <<>>
    /\ agents = <<>>
    /\ factories = <<>>
    /\ wk = <<>>
    /\ agents_lock = {}
    /\ agent_lock = <<>>
    /\ factory_lock = <<>>
    /\ preferences_lock = <<>>
    /\ dpc = <<>>
    /\ new_demand = <<>>
    /\ desire_cycles = <<>>
    /\ phase_done = <<>>
    /\ logger_ok = TRUE

(* ----------------------------------------------------------------------- *)
(* SpecAgent: one agent, one product (id 1), operations in any order       *)
(* ----------------------------------------------------------------------- *)
NoObs == [op |-> "none", price |-> 0, before |-> <<>>, out |-> <<>>,
          offers |-> <<>>, random_value |-> 0, interval_relation |-> NoRelation]

NoFactoryObs == [op |-> "none", before |-> <<>>, round |-> 0, result |-> NotYet,
                 interval_relation |-> NoRelation]

\* the single factory while the single-agent specification runs
FactoryIdle ==
    /\ uf = FactoryNew(0, 10, 100, 100000, 100, 10)
    /\ ufobs = NoFactoryObs
    /\ ufround = 0
    /\ ufphase = "idle"
    /\ ufdeals = 0
    /\ ustarted = <<>>

InitAgent ==
    /\ FactoryIdle
    /\ MarketIdle
    /\ OffersIdle
    /\ \E cash \in UnitCashes, e \in Elasticities, op \in UnitOriginalPrices,
          lo \in PrefLowerDraws :
         \E hi \in {lo} \cup {u \in PrefUpperDraws : u > lo} :
            ua = AgentNew(cash, [p \in {1} |-> from_product(op, e, lo, hi)])
    /\ uobs = NoObs
    /\ usteps = 0

\* the desire thread inserts the product into demand
UDesire ==
    /\ 1 \notin ua.demand
    /\ ua' = [ua EXCEPT !.demand = @ \cup {1}]
    /\ uobs' = [NoObs EXCEPT !.op = "desire", !.before = ua]
    /\ UNCHANGED <<usteps, factoryVars, offerVars, marketVars>>

UNegotiate ==
    /\ usteps < MaxSteps
    /\ \E price \in OfferPrices :
         /\ ua' = agent_after_negotiate(ua, 1, price)
         /\ uobs' = [NoObs EXCEPT !.op = "negotiate", !.price = price,
                                  !.before = ua, !.out = negotiate(ua, 1, price)]
    /\ usteps' = usteps + 1
    /\ UNCHANGED <<factoryVars, offerVars, marketVars>>

\* one worker visit: has_demand, the negotiation loop, settling
UTrade ==
    /\ usteps < MaxSteps
    /\ has_demand(ua, 1)
    /\ \E offers \in SortedOffers(OfferPrices), random_value \in RandomValues :
         LET n == negotiate_offers(ua, 1, offers)
         IN  IF n.deal_index > 0
             THEN /\ ua' = settling(n.agent, 1, n.results[n.deal_index][1],
                                    n.results[n.deal_index][2], n.offered,
                                    random_value)
                  /\ uobs' = [NoObs EXCEPT !.op = "success", !.before = ua,
                                !.price = n.offered[n.deal_index],
                                !.out = n.results, !.offers = n.offered,
                                !.random_value = random_value]
             ELSE \E rel \in FailureRelations(n.results) :
                  /\ ua' = settling(n.agent, 1, Failed, rel, n.offered, random_value)
                  /\ uobs' = [NoObs EXCEPT !.op = "failure", !.before = ua,
                                !.out = n.results, !.offers = n.offered,
                                !.random_value = random_value,
                                !.interval_relation = rel]
    /\ usteps' = usteps + 1
    /\ UNCHANGED <<factoryVars, offerVars, marketVars>>

UIncome ==
    /\ usteps < MaxSteps
    /\ \E amount \in IncomeDraws :
         /\ ua' = income(ua, amount)
         /\ uobs' = [NoObs EXCEPT !.op = "income", !.before = ua, !.price = amount]
    /\ usteps' = usteps + 1
    /\ UNCHANGED <<factoryVars, offerVars, marketVars>>

NextAgent ==
    \/ UDesire
    \/ UNegotiate
    \/ UTrade
    \/ UIncome

SpecAgent == InitAgent /\ [][NextAgent]_vars

(* ----------------------------------------------------------------------- *)
(* Properties of the single agent                                          *)
(* ----------------------------------------------------------------------- *)
RangeValid(range) == range[1] >= 0 /\ range[2] > range[1]

\* C2: at every observation point (after construction and after any sequence
\* of settlements) every Preference has current_range.lower >= 0 and
\* current_range.upper > current_range.lower.
C2_PreferenceRangeValid ==
    \A p \in DOMAIN ua.preferences : RangeValid(ua.preferences[p].current_range)

\* C7: negotiate answers by precedence: no demand -> NotMatched; else
\* cash < price -> (Failed, CashBurnedOut); else price inside the range ->
\* (Success(price), Overlapping(price)); else price below the range ->
\* (Failed, AgentAboveFactory); else (Failed, AgentBelowFactory).
C7_NegotiatePrecedence ==
    uobs.op = "negotiate" =>
        LET a == uobs.before
            price == uobs.price
            lower == a.preferences[1].current_range[1]
            upper == a.preferences[1].current_range[2]
        IN  IF 1 \notin a.demand THEN uobs.out[1] = NotMatched
            ELSE IF a.cash < price THEN uobs.out = <<Failed, CashBurnedOut>>
            ELSE IF lower <= price /\ price <= upper
            THEN uobs.out = <<Success(price), Overlapping(price)>>
            ELSE IF price < lower THEN uobs.out = <<Failed, AgentAboveFactory>>
            ELSE uobs.out = <<Failed, AgentBelowFactory>>

\* C7 witness: an agent with demand and a price inside its range, but less
\* cash than the price, was answered (Failed, CashBurnedOut)
C7_Witness ==
    /\ uobs.op = "negotiate"
    /\ 1 \in uobs.before.demand
    /\ uobs.before.cash < uobs.price
    /\ uobs.before.preferences[1].current_range[1] <= uobs.price
    /\ uobs.price <= uobs.before.preferences[1].current_range[2]
    /\ uobs.out = <<Failed, CashBurnedOut>>

\* C8: negotiate is a pure query: whatever it answers, the agent's cash,
\* demand set and every Preference field are as they were before the call.
C8_NegotiatePure ==
    uobs.op = "negotiate" =>
        /\ ua.cash = uobs.before.cash
        /\ ua.demand = uobs.before.demand
        /\ ua.preferences = uobs.before.preferences

\* C8 witness: a negotiate that answered Success
C8_Witness ==
    /\ uobs.op = "negotiate"
    /\ uobs.out[1] = Success(uobs.price)

\* the width a success at price p leaves: max(0.9 * old_width, max(0.05 * p, 0.1))
SuccessWidth(old_range, p) ==
    Max(((old_range[2] - old_range[1]) * 9) \div 10, Max((p * 5) \div 100, 100))

\* C18: handle_trade_success at price p lowers the cash by exactly p, sets
\* current_price to p and current_range to
\* (max(p - w/2, 0), max(p + w/2, lower + 0.1)) with
\* w = max(0.9 * old_width, max(0.05 * p, 0.1)); a negative lower bound is
\* clamped to 0.
C18_SuccessReshapesRange ==
    uobs.op = "success" =>
        LET p == uobs.price
            w == SuccessWidth(uobs.before.preferences[1].current_range, p)
            lower == IF p - w \div 2 < 0 THEN 0 ELSE p - w \div 2
            upper == IF p + w \div 2 < lower + 100 THEN lower + 100 ELSE p + w \div 2
        IN  /\ ua.cash = uobs.before.cash - p
            /\ ua.preferences[1].current_price = p
            /\ ua.preferences[1].current_range = <<lower, upper>>

\* C18 witness: a success at a price so low that the lower bound was clamped
C18_Witness ==
    /\ uobs.op = "success"
    /\ uobs.price -
           SuccessWidth(uobs.before.preferences[1].current_range, uobs.price) \div 2 < 0
    /\ ua.preferences[1].current_range[1] = 0
    /\ ua.cash = uobs.before.cash - uobs.price

\* C19: after a successful trade is settled for (agent, product), the agent
\* no longer has demand for that product.
C19_SuccessClearsDemand ==
    uobs.op = "success" => 1 \notin ua.demand

\* C20: handle_trade_failure first makes the elasticity draw: a draw below
\* original_elastic removes the demand entry and leaves current_range and
\* current_price as they were; otherwise the demand entry is kept.
C20_FailureElasticityDraw ==
    uobs.op = "failure" =>
        LET preference == uobs.before.preferences[1]
        IN  IF uobs.random_value < preference.original_elastic
            THEN /\ 1 \notin ua.demand
                 /\ ua.preferences[1].current_range = preference.current_range
                 /\ ua.preferences[1].current_price = preference.current_price
            ELSE 1 \in ua.demand

\* C20 witness: the agent gave up after offers above its range, which would
\* have moved the range had the draw not been below the elasticity
C20_Witness ==
    /\ uobs.op = "failure"
    /\ uobs.random_value < uobs.before.preferences[1].original_elastic
    /\ 1 \in uobs.before.demand
    /\ \E i \in DOMAIN uobs.offers :
           /\ uobs.offers[i] > uobs.before.preferences[1].current_range[2]
           /\ uobs.out[i] = <<Failed, AgentBelowFactory>>
    /\ 1 \notin ua.demand

\* C21: a failure handled with the relation CashBurnedOut never changes the
\* agent's current_range, nor its cash, whatever prices were offered.
C21_CashBurnedKeepsRange ==
    (uobs.op = "failure" /\ uobs.interval_relation = CashBurnedOut) =>
        /\ ua.preferences[1].current_range
               = uobs.before.preferences[1].current_range
        /\ ua.cash = uobs.before.cash

\* C21 witness: the agent could not pay, the offers lay on both sides of its
\* range, the elasticity draw kept the demand, and the range stayed
C21_Witness ==
    /\ uobs.op = "failure"
    /\ uobs.interval_relation = CashBurnedOut
    /\ uobs.random_value >= uobs.before.preferences[1].original_elastic
    /\ \E i \in DOMAIN uobs.offers :
           uobs.offers[i] > uobs.before.preferences[1].current_range[2]
    /\ \E i \in DOMAIN uobs.offers :
           uobs.offers[i] < uobs.before.preferences[1].current_range[1]
    /\ 1 \in ua.demand
    /\ ua.preferences[1].current_range
           = uobs.before.preferences[1].current_range

\* the range the failure rule names: the offers outside the range choose the
\* case, and the new range is centred on the minimum of the offered prices
ClaimedFailureRange(range, offers) ==
    LET above == \E i \in DOMAIN offers : offers[i] > range[2]
        below == \E i \in DOMAIN offers : offers[i] < range[1]
        min_offer == MinPrice(offers[1], offers)
    IN  IF above /\ below THEN gen_new_range_with_price(min_offer, range, 20)
        ELSE IF below
        THEN gen_new_range_with_price(min_offer,
                                      shift_range_by_ratio(range, -10), 10)
        ELSE IF above
        THEN gen_new_range_with_price(min_offer,
                                      shift_range_by_ratio(range, 10), 10)
        ELSE range

\* C26: when handle_trade_failure keeps the demand and the relation is not
\* CashBurnedOut, the new range is: offers on both sides of the range ->
\* re-centred on the minimum offered price with factor 0.2; only offers below
\* -> shifted down 10% and re-centred on the minimum offer with factor 0.1;
\* only offers above -> shifted up 10% and re-centred on the minimum offer
\* with factor 0.1; no offer outside the range -> unchanged.
C26_FailureReshapeRule ==
    (/\ uobs.op = "failure"
     /\ uobs.random_value >= uobs.before.preferences[1].original_elastic
     /\ uobs.interval_relation # CashBurnedOut) =>
        ua.preferences[1].current_range
            = ClaimedFailureRange(uobs.before.preferences[1].current_range,
                                  uobs.offers)

(* ----------------------------------------------------------------------- *)
(* SpecFactory: one factory through StartRound -> Deal* -> SettleRound     *)
(* ----------------------------------------------------------------------- *)
\* rounds a single-factory run goes through, and deals per round
MaxRounds == 2
MaxDeals == 2

\* Factory::new: reference price 10.0, lower in [0, reference), upper in
\* [lower, 1.5 * reference); cost, cash, durability, risk_appetite samples
FactoryLowerDraws == {0, 3000}
FactoryUpperDraws == {12000}
ProductCosts == {100, 5000}
FactoryCashes == {100000}
Durabilities == {50, 100}
RiskAppetites == {10, 50}

\* prices of the Success deals handed to the single factory
DealPrices == {13000}

TradeResults == {NotYet, NotMatched, Failed} \cup {Success(p) : p \in DealPrices}
IntervalRelations ==
    {NoRelation, AgentBelowFactory, AgentAboveFactory, CashBurnedOut}
        \cup {Overlapping(p) : p \in DealPrices}

\* the ratio of a Failed deal with CashBurnedOut, for which the source's
\* get_range_change_ratio has no arm
CashBurnedRatios == {-1, 0, 1}

\* the single agent while the single-factory specification runs
AgentIdle ==
    /\ ua = AgentNew(0, [p \in {1} |-> from_product(10000, 1, 0, 10)])
    /\ uobs = NoObs
    /\ usteps = 0

InitFactory ==
    /\ AgentIdle
    /\ MarketIdle
    /\ OffersIdle
    /\ \E lower \in FactoryLowerDraws, cost \in ProductCosts, cash \in FactoryCashes,
          durability \in Durabilities, risk \in RiskAppetites :
         \E upper \in {lower} \cup {u \in FactoryUpperDraws : u > lower} :
            uf = FactoryNew(lower, upper, cost, cash, durability, risk)
    /\ ufobs = NoFactoryObs
    /\ ufround = 0
    /\ ufphase = "idle"
    /\ ufdeals = 0
    /\ ustarted = <<>>

FStartRound ==
    /\ ufphase = "idle"
    /\ ufround < MaxRounds
    /\ ufround' = ufround + 1
    /\ uf' = start_round(uf, ufround + 1)
    /\ ufobs' = [NoFactoryObs EXCEPT !.op = "start_round", !.before = uf,
                                     !.round = ufround + 1]
    /\ ufphase' = "open"
    /\ ufdeals' = 0
    /\ ustarted' = Append(ustarted, ufround + 1)
    /\ UNCHANGED <<agentVars, offerVars, marketVars>>

FDeal ==
    /\ ufphase = "open"
    /\ ufdeals < MaxDeals
    /\ \E result \in TradeResults, rel \in IntervalRelations :
         \E cbr \in IF result = Failed /\ rel = CashBurnedOut
                    THEN CashBurnedRatios ELSE {0} :
            /\ uf' = deal(uf, result, ufround, rel, cbr)
            /\ ufobs' = [NoFactoryObs EXCEPT !.op = "deal", !.before = uf,
                            !.round = ufround, !.result = result,
                            !.interval_relation = rel]
    /\ ufdeals' = ufdeals + 1
    /\ UNCHANGED <<ufround, ufphase, ustarted, agentVars, offerVars, marketVars>>

FSettle ==
    /\ ufphase = "open"
    /\ uf' = settling_after_round(uf, ufround)
    /\ ufobs' = [NoFactoryObs EXCEPT !.op = "settling_after_round", !.before = uf,
                                     !.round = ufround]
    /\ ufphase' = "idle"
    /\ UNCHANGED <<ufround, ufdeals, ustarted, agentVars, offerVars, marketVars>>

NextFactory ==
    \/ FStartRound
    \/ FDeal
    \/ FSettle

SpecFactory == InitFactory /\ [][NextFactory]_vars

(* ----------------------------------------------------------------------- *)
(* Properties of the single factory                                        *)
(* ----------------------------------------------------------------------- *)
\* C3: at every observation point (after construction and after any sequence
\* of start_round, deal and settling_after_round) the factory has
\* supply_price_range.lower >= product_cost and upper > lower.
C3_SupplyRangeValid ==
    /\ uf.supply_price_range[1] >= uf.product_cost
    /\ uf.supply_price_range[2] > uf.supply_price_range[1]

\* the deal recorded in ufobs found stock left for its round
DealHadStock ==
    /\ ufobs.op = "deal"
    /\ ufobs.round \in DOMAIN ufobs.before.amount
    /\ ufobs.before.amount[ufobs.round] > 0

\* C9: a deal with Success(price) on a round whose remaining stock is > 0
\* decrements that round's remaining stock by exactly 1 and increases the
\* factory's cash by exactly price.
C9_SuccessDeal ==
    (DealHadStock /\ ufobs.result[1] = "Success") =>
        /\ uf.amount[ufobs.round] = ufobs.before.amount[ufobs.round] - 1
        /\ uf.cash = ufobs.before.cash + ufobs.result[2]

\* C9 witness: a Success deal was applied while the round had stock
C9_Witness ==
    /\ DealHadStock
    /\ ufobs.result[1] = "Success"
    /\ ufobs.result[2] > 0

\* each bound times (1 + s / 100), to the cent, the upper one at least a cent
\* above the lower one
PercentShifted(range, s) ==
    LET lo == 10 * RoundQ(Max(range[1] * (100 + s), 0), 1000)
        hi == 10 * RoundQ(range[2] * (100 + s), 1000)
    IN  <<lo, IF hi <= lo THEN lo + 10 ELSE hi>>

\* the direction the specification gives for a result and relation, hundredths
ClaimedRatio(result, rel) ==
    IF result[1] = "Success" THEN 1
    ELSE IF rel = AgentAboveFactory THEN 1
    ELSE -1

\* C10: a deal that takes effect shifts supply_price_range by +1% on Success
\* and on Failed with AgentAboveFactory, by -1% on Failed with Overlapping,
\* AgentBelowFactory or no relation; the resulting lower bound is re-clamped
\* so that it is never below product_cost (the width of the shifted range kept).
C10_DealShiftsRange ==
    (/\ DealHadStock
     /\ ufobs.result[1] \in {"Success", "Failed"}
     /\ ~(ufobs.result = Failed /\ ufobs.interval_relation = CashBurnedOut)) =>
        LET shifted == PercentShifted(ufobs.before.supply_price_range,
                           ClaimedRatio(ufobs.result, ufobs.interval_relation))
            cost == ufobs.before.product_cost
        IN  /\ uf.supply_price_range =
                  IF shifted[1] < cost
                  THEN <<cost, cost + (shifted[2] - shifted[1])>>
                  ELSE shifted
            /\ uf.supply_price_range[1] >= uf.product_cost

\* C10 witness: a Failed deal with AgentAboveFactory raised both bounds
C10_Witness ==
    /\ DealHadStock
    /\ ufobs.result = Failed
    /\ ufobs.interval_relation = AgentAboveFactory
    /\ uf.supply_price_range[1] > ufobs.before.supply_price_range[1]
    /\ uf.supply_price_range[2] > ufobs.before.supply_price_range[2]


\* the rounds a deal may be asked about: started, evicted and never started
DealRounds == 0..(MaxRounds + 1)

\* the supply range, the cash and the stock window of g are those of f
SameRangeCashStock(f, g) ==
    /\ g.supply_price_range = f.supply_price_range
    /\ g.cash = f.cash
    /\ g.amount = f.amount

\* C11: deal with NotMatched or NotYet, for any round and any interval
\* relation, leaves the factory's supply_price_range, cash and stock unchanged.
C11_UnmatchedDealNoOp ==
    /\ \A result \in {NotMatched, NotYet}, r \in DealRounds,
          rel \in IntervalRelations, cbr \in CashBurnedRatios :
            SameRangeCashStock(uf, deal(uf, result, r, rel, cbr))
    /\ (ufobs.op = "deal" /\ ufobs.result \in {NotMatched, NotYet})
           => SameRangeCashStock(ufobs.before, uf)

\* C11 witness: a NotMatched deal with AgentAboveFactory reached a factory
\* that had stock for the round
C11_Witness ==
    /\ DealHadStock
    /\ ufobs.result = NotMatched
    /\ ufobs.interval_relation = AgentAboveFactory
    /\ SameRangeCashStock(ufobs.before, uf)

\* C12: when the remaining stock of the given round is 0, deal is a no-op for
\* every result, Success and Failed included: supply_price_range, cash and
\* the stock entry are unchanged.
C12_ExhaustedDealNoOp ==
    /\ \A r \in DOMAIN uf.amount :
           uf.amount[r] = 0 =>
               \A result \in TradeResults, rel \in IntervalRelations,
                  cbr \in CashBurnedRatios :
                    deal(uf, result, r, rel, cbr) = uf
    /\ (/\ ufobs.op = "deal"
        /\ ufobs.round \in DOMAIN ufobs.before.amount
        /\ ufobs.before.amount[ufobs.round] = 0)
           => uf = ufobs.before

\* C12 witness: a Success deal reached a factory whose round was sold out
C12_Witness ==
    /\ ufobs.op = "deal"
    /\ ufobs.result[1] = "Success"
    /\ ufobs.round \in DOMAIN ufobs.before.amount
    /\ ufobs.before.amount[ufobs.round] = 0
    /\ ufobs.before.accountant.bills[ufobs.round].initial_stock > 0
    /\ uf = ufobs.before

(* ----------------------------------------------------------------------- *)
(* SpecWindow: start_round called with rounds in any order                 *)
(* ----------------------------------------------------------------------- *)
\* the rounds start_round is called with, and how many calls a run makes
MaxWindowRound == 4
MaxWindowCalls == 4

WStartRound ==
    /\ Len(ustarted) < MaxWindowCalls
    /\ \E r \in 1..MaxWindowRound :
         /\ uf' = start_round(uf, r)
         /\ ufobs' = [NoFactoryObs EXCEPT !.op = "start_round", !.before = uf,
                                          !.round = r]
         /\ ufround' = r
         /\ ustarted' = Append(ustarted, r)
    /\ UNCHANGED <<ufphase, ufdeals, agentVars, offerVars, marketVars>>

NextWindow ==
    \/ WStartRound

SpecWindow == InitFactory /\ [][NextWindow]_vars

\* start_round has been called for the rounds 1..n in order, and nothing else
StartedInOrder == ustarted = [i \in 1..Len(ustarted) |-> i]

\* C13: after any sequence of start_round calls the stock window `amount`
\* holds at most 3 round keys, and after start_round has been called for the
\* rounds 1..n in order it holds exactly the most recent min(n, 3) rounds.
C13_StockWindow ==
    /\ Cardinality(DOMAIN uf.amount) <= 3
    /\ StartedInOrder =>
           DOMAIN uf.amount = {r \in 1..Len(ustarted) : r > Len(ustarted) - 3}

\* C13 witness: after the rounds 1, 2, 3, 4 the window holds 2, 3, 4: round 1,
\* the oldest, was evicted
C13_Witness ==
    /\ ustarted = <<1, 2, 3, 4>>
    /\ DOMAIN uf.amount = {2, 3, 4}
    /\ uf.u64_list = <<2, 3, 4>>

(* ----------------------------------------------------------------------- *)
(* SpecLedger: one factory through many rounds of StartRound, SettleRound  *)
(* ----------------------------------------------------------------------- *)
\* rounds a ledger run goes through
MaxLedgerRounds == 20

LStartRound ==
    /\ ufphase = "idle"
    /\ ufround < MaxLedgerRounds
    /\ ufround' = ufround + 1
    /\ uf' = start_round(uf, ufround + 1)
    /\ ufobs' = [NoFactoryObs EXCEPT !.op = "start_round", !.before = uf,
                                     !.round = ufround + 1]
    /\ ufphase' = "open"
    /\ ustarted' = Append(ustarted, ufround + 1)
    /\ UNCHANGED <<ufdeals, agentVars, offerVars, marketVars>>

LSettle ==
    /\ ufphase = "open"
    /\ uf' = settling_after_round(uf, ufround)
    /\ ufobs' = [NoFactoryObs EXCEPT !.op = "settling_after_round", !.before = uf,
                                     !.round = ufround]
    /\ ufphase' = "idle"
    /\ UNCHANGED <<ufround, ufdeals, ustarted, agentVars, offerVars, marketVars>>

NextLedger ==
    \/ LStartRound
    \/ LSettle

SpecLedger == InitFactory /\ [][NextLedger]_vars

\* C14: after any sequence of Accountant operations (add_bill, and
\* get_bill_or_default as start_round and settling_after_round invoke it over
\* any number of rounds) the Accountant holds at most 20 bills.
C14_AccountantBounded == Cardinality(DOMAIN uf.accountant.bills) <= 20

(* ----------------------------------------------------------------------- *)
(* SpecPlan: one factory producing, selling and settling over some rounds  *)
(* ----------------------------------------------------------------------- *)
\* rounds a planning run goes through, and sales per round
MaxPlanRounds == 5
MaxPlanSales == 2

\* samples of Factory::new for the planning run: a factory that can afford
\* three units and one that can afford twenty; durability 0 lets every
\* unsold unit rot
PlanLowerDraws == {3000}
PlanUpperDraws == {12000}
PlanCosts == {5000}
PlanCashes == {15000, 100000}
PlanDurabilities == {0, 50, 100}
PlanRiskAppetites == {10, 50}

InitPlan ==
    /\ AgentIdle
    /\ MarketIdle
    /\ OffersIdle
    /\ \E lower \in PlanLowerDraws, upper \in PlanUpperDraws, cost \in PlanCosts,
          cash \in PlanCashes, durability \in PlanDurabilities,
          risk \in PlanRiskAppetites :
            uf = FactoryNew(lower, upper, cost, cash, durability, risk)
    /\ ufobs = NoFactoryObs
    /\ ufround = 0
    /\ ufphase = "idle"
    /\ ufdeals = 0
    /\ ustarted = <<>>

PStartRound ==
    /\ ufphase = "idle"
    /\ ufround < MaxPlanRounds
    /\ ufround' = ufround + 1
    /\ uf' = start_round(uf, ufround + 1)
    /\ ufobs' = [NoFactoryObs EXCEPT !.op = "start_round", !.before = uf,
                                     !.round = ufround + 1]
    /\ ufphase' = "open"
    /\ ufdeals' = 0
    /\ ustarted' = Append(ustarted, ufround + 1)
    /\ UNCHANGED <<agentVars, offerVars, marketVars>>

\* a sale: the deal of a winning factory
PSale ==
    /\ ufphase = "open"
    /\ ufdeals < MaxPlanSales
    /\ \E price \in DealPrices :
         /\ uf' = deal(uf, Success(price), ufround, Overlapping(price), 0)
         /\ ufobs' = [NoFactoryObs EXCEPT !.op = "deal", !.before = uf,
                         !.round = ufround, !.result = Success(price),
                         !.interval_relation = Overlapping(price)]
    /\ ufdeals' = ufdeals + 1
    /\ UNCHANGED <<ufround, ufphase, ustarted, agentVars, offerVars, marketVars>>

PSettle ==
    /\ ufphase = "open"
    /\ uf' = settling_after_round(uf, ufround)
    /\ ufobs' = [NoFactoryObs EXCEPT !.op = "settling_after_round", !.before = uf,
                                     !.round = ufround]
    /\ ufphase' = "idle"
    /\ UNCHANGED <<ufround, ufdeals, ustarted, agentVars, offerVars, marketVars>>

NextPlan ==
    \/ PStartRound
    \/ PSale
    \/ PSettle

SpecPlan == InitPlan /\ [][NextPlan]_vars

\* the bill of the round before the observed start_round, as it was read
LastBill == get_bill_or_default(ufobs.before.accountant,
                                ufobs.round - 1).bills[ufobs.round - 1]

\* floor(cash * risk_appetite / product_cost) of the observed start_round
Affordable ==
    FloorDiv(ufobs.before.cash * ufobs.before.risk_appetite,
             100 * ufobs.before.product_cost)

\* floor((1.1 + 0.4 * risk_appetite) * last initial stock)
ScaledUp ==
    FloorDiv(LastBill.initial_stock * (1100 + 4 * ufobs.before.risk_appetite), 1000)

\* what a start_round that produced `quantity` units must leave behind
Produced(quantity) ==
    /\ uf.cash = ufobs.before.cash - quantity * ufobs.before.product_cost
    /\ uf.amount[ufobs.round] = LastBill.remaining_stock + quantity
    /\ uf.accountant.bills[ufobs.round].initial_stock
           = LastBill.remaining_stock + quantity
    /\ uf.accountant.bills[ufobs.round].total_production = quantity

C28_ScaleUpOnlyAfterSellOut ==
    (/\ ufobs.op = "start_round"
     /\ LastBill.initial_stock > 0
     /\ LastBill.units_sold < LastBill.initial_stock) =>
        Produced(Min(Max(LastBill.total_production, 1), Affordable))

\* C28 witness: the last round ended with unsold units, one of which rotted;
\* scaling up would have produced more than the factory did produce
C28_Witness ==
    /\ ufobs.op = "start_round"
    /\ LastBill.units_sold < LastBill.initial_stock
    /\ LastBill.rot_stock > 0
    /\ Min(ScaledUp, Affordable) > LastBill.total_production
    /\ uf.accountant.bills[ufobs.round].total_production
           = LastBill.total_production

\* C29: settling_after_round(r) closes the bill of r with
\* rot_stock = floor(remaining * (1 - durability)),
\* units_sold = initial_stock - remaining,
\* revenue = bill cash at round start - current cash,
\* remaining_stock = remaining - rot_stock,
\* profit = revenue - (units_sold + rot_stock) * product_cost,
\* and bill cash = current cash.
C29_SettlingClosesBill ==
    ufobs.op = "settling_after_round" =>
        LET f == ufobs.before
            open == f.accountant.bills[ufobs.round]
            bill == uf.accountant.bills[ufobs.round]
            remaining == f.amount[ufobs.round]
            rot == FloorDiv(remaining * (100 - f.durability), 100)
        IN  /\ bill.rot_stock = rot
            /\ bill.units_sold = open.initial_stock - remaining
            /\ bill.revenue = open.cash - f.cash
            /\ bill.remaining_stock = remaining - rot
            /\ bill.profit = bill.revenue
                                - (bill.units_sold + rot) * f.product_cost
            /\ bill.cash = f.cash

\* C29 witness: a round closed with units sold, units rotten and units left
C29_Witness ==
    /\ ufobs.op = "settling_after_round"
    /\ uf.accountant.bills[ufobs.round].units_sold > 0
    /\ uf.accountant.bills[ufobs.round].rot_stock > 0
    /\ uf.accountant.bills[ufobs.round].remaining_stock > 0
    /\ uf.accountant.bills[ufobs.round].revenue # 0

\* initial_stock = units_sold + rot_stock + remaining_stock
StockBalanced(bill) ==
    bill.initial_stock = bill.units_sold + bill.rot_stock + bill.remaining_stock

\* C34: stock is conserved at settlement: after settling_after_round(r) the
\* bill of round r satisfies
\* initial_stock = units_sold + rot_stock + remaining_stock, and the stock
\* start_round carries into round r + 1 (the round's initial stock less its
\* production) is exactly that remaining_stock.
C34_StockConserved ==
    /\ ufobs.op = "settling_after_round" =>
          StockBalanced(uf.accountant.bills[ufobs.round])
    /\ (ufobs.op = "start_round" /\ ufobs.round > 1) =>
          LET last == ufobs.before.accountant.bills[ufobs.round - 1]
              bill == uf.accountant.bills[ufobs.round]
          IN  /\ StockBalanced(last)
              /\ bill.initial_stock - bill.total_production = last.remaining_stock
              /\ uf.amount[ufobs.round] = bill.initial_stock

\* C34 witness: a round that sold, lost and kept units is followed by the
\* start of the next round
C34_Witness ==
    /\ ufobs.op = "start_round"
    /\ ufobs.round > 1
    /\ ufobs.before.accountant.bills[ufobs.round - 1].units_sold > 0
    /\ ufobs.before.accountant.bills[ufobs.round - 1].rot_stock > 0
    /\ ufobs.before.accountant.bills[ufobs.round - 1].remaining_stock > 0
    /\ uf.accountant.bills[ufobs.round].total_production > 0

\* C37: a factory's cash is never negative: start_round debits at most
\* risk_appetite (< 1) times the current cash for production, and deal only
\* ever adds to cash.
C37_FactoryCashNeverNegative ==
    /\ uf.cash >= 0
    /\ uf.risk_appetite < 100
    /\ ufobs.op = "start_round" =>
          /\ uf.cash <= ufobs.before.cash
          /\ (ufobs.before.cash - uf.cash) * 100
                 <= ufobs.before.risk_appetite * ufobs.before.cash
    /\ ufobs.op = "deal" => uf.cash >= ufobs.before.cash

\* C37 witness: a start_round whose plan exceeds the budget produces and
\* debits what the budget allows
C37_Witness ==
    /\ ufobs.op = "start_round"
    /\ ufobs.round > 1
    /\ uf.cash < ufobs.before.cash
    /\ uf.accountant.bills[ufobs.round].total_production = Affordable
    /\ Affordable < Max(LastBill.total_production, ScaledUp)

\* the prices the Success deals of the observed round have added to the
\* factory's cash: deal is the only operation between start_round, which
\* writes its closing cash into the bill, and the settlement
CreditedInRound ==
    ufobs.before.cash - ufobs.before.accountant.bills[ufobs.round].cash

product_category == <<"Food", "Clothing">>
Products == DOMAIN product_category

\* the categories a desire thread walks through (two of the source's list)
DesireCategories == {"Food", "Clothing"}

\* factory id -> product id; Market::new numbers the factories product by product
factory_product == <<1, 1, 2>>
FactoryIds == DOMAIN factory_product
FactoriesOf(product_id) == {f \in FactoryIds : factory_product[f] = product_id}

\* the agents Market::new creates (two of them here)
AgentIds == {1, 2}

\* Market::new gives every agent 10000.0
InitialAgentCash == 10000000

\* run stops after the round in which round > MaxRound
MaxRound == 1

\* run stops once this many rounds in a row had no trade
ZeroTradeLimit == 2

\* iterations of its loop each agent's desire thread runs
DesireCycles == <<2, 1>>

\* samples and draws of Market::new; the initial ranges are listed per agent
\* and per factory
MarketOriginalPrices == {6000000}
MarketElasticities == <<{50}, {50}>>
MarketPrefRanges == <<{<<4000000, 8000000>>}, {<<1000000, 2000000>>}>>
MarketSupplyRanges == <<{<<5000000, 7000000>>}, {<<5000000, 7000000>>},
                        {<<6000000, 7000000>>}>>
MarketProductCosts == {3000000}
MarketFactoryCashes == {60000000}
MarketDurabilities == {50}
MarketRiskAppetites == {50}

\* draws of insert_demand's gen_range(0.01..0.99), hundredths
DemandDraws == {1, 98}

\* draws of ubi's gen_range(800.0..1200.0) in the market
MarketIncomeDraws == {1000000}

\* the ratio deal uses for a CashBurnedOut failure
MarketCashBurnedRatios == {-1}

\* all orders of a finite set, as sequences
Perms(S) ==
    {s \in [1..Cardinality(S) -> S] : \A i, j \in DOMAIN s : i # j => s[i] # s[j]}

NoWorker == [pc |-> "idle", round |-> 0, index |-> 0, potential_factories |-> <<>>,
             trade_result_list |-> <<>>, offered_prices |-> <<>>, deal_index |-> 0,
             trades_count |-> 0, settlings |-> 0, demand_visits |-> 0]

\* RwLock::write on an agent: granted when nobody holds the lock
try_write_unguarded(holder) == TRUE

try_write(holder) == holder = 0

\* the agent's guard goes out of scope at the end of the loop body
release_write_leaked(holder) == holder

release_write(holder) == 0

\* joining the handles: every worker thread has returned
all_joined_unchecked(workers) == TRUE

all_joined(workers) == \A p \in DOMAIN workers : workers[p].pc = "done"

MarketNew(prefs, supply) ==
    /\ round = 1
    /\ total_trades = 0
    /\ consecutive_zero_trades = 0
    /\ round_trades = 0
    /\ mpc = "spawn"
    /\ agent_list = [i \in 1..Cardinality(AgentIds) |-> i]
    /\ agents = [a \in AgentIds |-> AgentNew(InitialAgentCash, prefs[a])]
    /\ factories = supply
    /\ wk = [p \in Products |-> NoWorker]
    /\ agents_lock = {}
    /\ agent_lock = [a \in AgentIds |-> 0]
    /\ factory_lock = [p \in Products |-> FALSE]
    /\ preferences_lock = [a \in AgentIds |-> {}]
    /\ dpc = [a \in AgentIds |-> "sleep"]
    /\ new_demand = [a \in AgentIds |-> {}]
    /\ desire_cycles = [a \in AgentIds |-> 0]
    /\ phase_done = [spawn |-> 0, join |-> 0, settle |-> 0, ubi |-> 0, check |-> 0,
                     tally |-> <<>>, broke |-> FALSE]

\* Market::new with the elasticity samples of the agents drawn from elastic
MarketInit(elastic) ==
    /\ AgentIdle
    /\ FactoryIdle
    /\ OffersIdle
    /\ logger_ok = TRUE
    /\ \E op \in MarketOriginalPrices, c \in MarketProductCosts,
          m \in MarketFactoryCashes, d \in MarketDurabilities,
          k \in MarketRiskAppetites :
       \E e \in [AgentIds -> UNION {elastic[a] : a \in AgentIds}],
          pr \in [AgentIds -> UNION {MarketPrefRanges[a] : a \in AgentIds}],
          sr \in [FactoryIds -> UNION {MarketSupplyRanges[f] : f \in FactoryIds}] :
         /\ \A a \in AgentIds : e[a] \in elastic[a] /\ pr[a] \in MarketPrefRanges[a]
         /\ \A f \in FactoryIds : sr[f] \in MarketSupplyRanges[f]
         /\ MarketNew([a \in AgentIds |-> [p \in Products |->
                           from_product(op, e[a], pr[a][1], pr[a][2])]],
                      [f \in FactoryIds |->
                           FactoryNew(sr[f][1], sr[f][2], c, m, d, k)])

Init == MarketInit(MarketElasticities)


(* ---- the main thread: Market::run ------------------------------------- *)
\* shuffle_before_round, then one worker thread per product
M_Spawn ==
    /\ mpc = "spawn"
    /\ \A p \in Products : ~factory_lock[p]
    /\ agents_lock = {}
    /\ \E order \in Perms(AgentIds) : agent_list' = order
    /\ round_trades' = 0
    /\ wk' = [p \in Products |-> [NoWorker EXCEPT !.pc = "begin", !.round = round]]
    /\ mpc' = "join"
    /\ phase_done' = [phase_done EXCEPT !.spawn = round]
    /\ UNCHANGED <<unitVars, desire_cycles, round, total_trades, consecutive_zero_trades, agents, factories,
                   agents_lock, agent_lock, factory_lock, preferences_lock, dpc,
                   new_demand>>

\* a tally that never resets the zero-trade counter
M_Join_without_reset ==
    /\ mpc = "join"
    /\ all_joined(wk)
    /\ total_trades' = total_trades + round_trades
    /\ consecutive_zero_trades' =
           IF round_trades = 0 THEN consecutive_zero_trades + 1
           ELSE consecutive_zero_trades
    /\ mpc' = "settle"
    /\ phase_done' = [phase_done EXCEPT !.join = round,
                                        !.tally = Append(@, round_trades),
                                        !.broke = \A a \in AgentIds :
                                                      agents[a].cash < 10]
    /\ UNCHANGED <<unitVars, desire_cycles, round, round_trades, agent_list, agents, factories, wk,
                   agents_lock, agent_lock, factory_lock, preferences_lock, dpc,
                   new_demand>>

\* the joins, then the round's tally (lines 197-213); phase_done.tally keeps
\* the trade totals of the rounds tallied so far, phase_done.broke whether
\* the round's trading left every agent with less than 0.01
M_Join ==
    /\ mpc = "join"
    /\ all_joined(wk)
    /\ total_trades' = total_trades + round_trades
    /\ consecutive_zero_trades' =
           IF round_trades = 0 THEN consecutive_zero_trades + 1 ELSE 0
    /\ mpc' = "settle"
    /\ phase_done' = [phase_done EXCEPT !.join = round,
                                        !.tally = Append(@, round_trades),
                                        !.broke = \A a \in AgentIds :
                                                      agents[a].cash < 10]
    /\ UNCHANGED <<unitVars, desire_cycles, round, round_trades, agent_list, agents, factories, wk,
                   agents_lock, agent_lock, factory_lock, preferences_lock, dpc,
                   new_demand>>

\* settling_after_round on every factory, then the two end-of-round logs
M_Settle ==
    /\ mpc = "settle"
    /\ \A p \in Products : ~factory_lock[p]
    /\ agents_lock = {}
    /\ \A a \in AgentIds : agent_lock[a] = 0
    /\ factories' = [f \in FactoryIds |-> settling_after_round(factories[f], round)]
    /\ mpc' = logged(logger_ok, mpc, "ubi")
    /\ phase_done' = [phase_done EXCEPT !.settle = round]
    /\ UNCHANGED <<unitVars, desire_cycles, round, total_trades, consecutive_zero_trades, round_trades,
                   agent_list, agents, wk, agents_lock, agent_lock, factory_lock,
                   preferences_lock, dpc, new_demand>>

\* ubi: every agent's income((800.0, 1200.0))
M_Ubi ==
    /\ mpc = "ubi"
    /\ agents_lock = {}
    /\ \A a \in AgentIds : agent_lock[a] = 0
    /\ \E amount \in [AgentIds -> MarketIncomeDraws] :
         agents' = [a \in AgentIds |-> income(agents[a], amount[a])]
    /\ mpc' = "check"
    /\ phase_done' = [phase_done EXCEPT !.ubi = round]
    /\ UNCHANGED <<unitVars, desire_cycles, round, total_trades, consecutive_zero_trades, round_trades,
                   agent_list, factories, wk, agents_lock, agent_lock, factory_lock,
                   preferences_lock, dpc, new_demand>>

\* the round cap and the zero-trade limit of break_simulation_loop
MAX_ROUND == 8000
MaxZeroTradeRounds == 20

\* a termination check whose round cap already stops at the cap itself
break_simulation_loop_at_cap(agent_map, r, zero_trades, max_round, zero_limit) ==
    \/ \A a \in DOMAIN agent_map : agent_map[a].cash < 10
    \/ r >= max_round
    \/ zero_trades >= zero_limit

\* a termination check that has no round cap
break_simulation_loop_uncapped(agent_map, r, zero_trades, max_round, zero_limit) ==
    \/ \A a \in DOMAIN agent_map : agent_map[a].cash < 10
    \/ zero_trades >= zero_limit

\* break_simulation_loop with the round cap and the zero-trade limit as
\* arguments: all agents below 0.01 of cash, or the cap, or the limit
break_simulation_loop_with(agent_map, r, zero_trades, max_round, zero_limit) ==
    \/ \A a \in DOMAIN agent_map : agent_map[a].cash < 10
    \/ r > max_round
    \/ zero_trades >= zero_limit

\* the check of the bounded market: MaxRound and ZeroTradeLimit stand for
\* MAX_ROUND and MaxZeroTradeRounds
break_simulation_loop(agent_map, r, zero_trades) ==
    break_simulation_loop_with(agent_map, r, zero_trades, MaxRound, ZeroTradeLimit)

M_Check ==
    /\ mpc = "check"
    /\ agents_lock = {}
    /\ \A a \in AgentIds : agent_lock[a] = 0
    /\ IF break_simulation_loop(agents, round, consecutive_zero_trades)
       THEN mpc' = "done" /\ round' = round
       ELSE mpc' = "spawn" /\ round' = round + 1
    /\ phase_done' = [phase_done EXCEPT !.check = round]
    /\ UNCHANGED <<unitVars, desire_cycles, total_trades, consecutive_zero_trades, round_trades, agent_list,
                   agents, factories, wk, agents_lock, agent_lock, factory_lock,
                   preferences_lock, dpc, new_demand>>


(* ---- SpecBreak: the termination check on its own ----------------------- *)
\* the round, the zero-trade count and the agents' cash the check is run on
BreakRounds == {20, MAX_ROUND, MAX_ROUND + 1}
BreakZeroTrades == {0, MaxZeroTradeRounds - 1, MaxZeroTradeRounds}
BreakCashes == {0, 9, 10, 1000000}

\* the main thread at the check of some round of a run
InitBreak ==
    /\ AgentIdle
    /\ FactoryIdle
    /\ OffersIdle
    /\ logger_ok = TRUE
    /\ round \in BreakRounds
    /\ consecutive_zero_trades \in BreakZeroTrades
    /\ \E cash \in [AgentIds -> BreakCashes] :
         agents = [a \in AgentIds |->
                      AgentNew(cash[a], [p \in Products |->
                          from_product(6000000, 50, 4000000, 8000000)])]
    /\ mpc = "check"
    /\ total_trades = 0
    /\ round_trades = 0
    /\ agent_list = [i \in 1..Cardinality(AgentIds) |-> i]
    /\ factories = <<>>
    /\ wk = [p \in Products |-> [NoWorker EXCEPT !.pc = "done", !.round = round]]
    /\ agents_lock = {}
    /\ agent_lock = [a \in AgentIds |-> 0]
    /\ factory_lock = [p \in Products |-> FALSE]
    /\ preferences_lock = [a \in AgentIds |-> {}]
    /\ dpc = [a \in AgentIds |-> "sleep"]
    /\ new_demand = [a \in AgentIds |-> {}]
    /\ desire_cycles = [a \in AgentIds |-> 0]
    /\ phase_done = [spawn |-> round, join |-> round, settle |-> round,
                     ubi |-> round, check |-> round - 1, tally |-> <<>>,
                     broke |-> FALSE]

\* lines 224-227 with the source's cap and limit
BCheck ==
    /\ mpc = "check"
    /\ IF break_simulation_loop_with(agents, round, consecutive_zero_trades,
                                     MAX_ROUND, MaxZeroTradeRounds)
       THEN mpc' = "done" /\ round' = round
       ELSE mpc' = "paced" /\ round' = round + 1
    /\ phase_done' = [phase_done EXCEPT !.check = round]
    /\ UNCHANGED <<unitVars, desire_cycles, total_trades, consecutive_zero_trades,
                   round_trades, agent_list, agents, factories, wk, agents_lock,
                   agent_lock, factory_lock, preferences_lock, dpc, new_demand>>

NextBreak ==
    \/ BCheck

SpecBreak == InitBreak /\ [][NextBreak]_vars


(* ---- SpecTally: the round loop with the workers' counts drawn ---------- *)
\* rounds a tally run goes through, and trades it counts in all
MaxTallyRounds == 22
MaxTallyTrades == 2

\* the trade counts the workers of a round return
TallyCounts ==
    {c \in [Products -> 0..1] :
        total_trades + c[1] + c[2] <= MaxTallyTrades}

\* lines 160-199: the workers of the round, each by the count it returns and
\* the start_round of its factories
T_Round ==
    /\ mpc = "spawn"
    /\ round <= MaxTallyRounds
    /\ \E c \in TallyCounts :
         /\ wk' = [p \in Products |->
                      [NoWorker EXCEPT !.pc = "done", !.round = round,
                                       !.trades_count = c[p]]]
         /\ round_trades' = c[1] + c[2]
    /\ factories' = [f \in FactoryIds |-> start_round(factories[f], round)]
    /\ mpc' = "join"
    /\ phase_done' = [phase_done EXCEPT !.spawn = round]
    /\ UNCHANGED <<unitVars, desire_cycles, round, total_trades,
                   consecutive_zero_trades, agent_list, agents, agents_lock,
                   agent_lock, factory_lock, preferences_lock, dpc, new_demand>>

\* line 229: the pause before the next round
T_Sleep ==
    /\ mpc = "paced"
    /\ mpc' = "spawn"
    /\ UNCHANGED <<unitVars, phase_done, desire_cycles, round, total_trades,
                   consecutive_zero_trades, round_trades, agent_list, agents,
                   factories, wk, agents_lock, agent_lock, factory_lock,
                   preferences_lock, dpc, new_demand>>

NextTally ==
    \/ T_Round
    \/ M_Join
    \/ M_Settle
    \/ M_Ubi
    \/ BCheck
    \/ T_Sleep

SpecTally == Init /\ [][NextTally]_vars


(* ---- SpecBroke: the round loop with agents that spend all their cash --- *)
\* rounds a run with spending agents goes through
MaxBrokeRounds == 4

\* lines 160-199: the workers of the round, by what they leave behind: the
\* agents of `spenders` have each paid their whole cash for one unit of
\* product 1, and the worker of product 1 returns their number
T_Spend ==
    /\ mpc = "spawn"
    /\ round <= MaxBrokeRounds
    /\ \E spenders \in SUBSET AgentIds :
         /\ agents' = [a \in AgentIds |->
                          IF a \in spenders THEN [agents[a] EXCEPT !.cash = 0]
                          ELSE agents[a]]
         /\ wk' = [p \in Products |->
                      [NoWorker EXCEPT !.pc = "done", !.round = round,
                          !.trades_count = IF p = 1 THEN Cardinality(spenders)
                                           ELSE 0]]
         /\ round_trades' = Cardinality(spenders)
    /\ factories' = [f \in FactoryIds |-> start_round(factories[f], round)]
    /\ mpc' = "join"
    /\ phase_done' = [phase_done EXCEPT !.spawn = round]
    /\ UNCHANGED <<unitVars, desire_cycles, round, total_trades,
                   consecutive_zero_trades, agent_list, agents_lock,
                   agent_lock, factory_lock, preferences_lock, dpc, new_demand>>

NextBroke ==
    \/ T_Spend
    \/ M_Join
    \/ M_Settle
    \/ M_Ubi
    \/ BCheck
    \/ T_Sleep

SpecBroke == Init /\ [][NextBroke]_vars


(* ---- a worker thread: process_product_trades -------------------------- *)
\* Factory::get_factory_status: every factory of the model is Active
get_factory_status(f) == "Active"

\* Factory::offer_price: the prices the factory may ask in the round; the
\* model's factories ask the lower end of their supply range
offer_price(f, r) == {f.supply_price_range[1]}

\* a range_factory_list that samples without looking at the stock
range_factory_list_any_stock(factory_map, ids, r) ==
    LET eligible == {f \in ids : get_factory_status(factory_map[f]) = "Active"}
        n == Min(Cardinality(eligible), MaxOffers)
        prices == UNION {offer_price(factory_map[f], r) : f \in eligible}
    IN  {s \in [1..n -> prices \X eligible] :
            /\ \A i, j \in 1..n : i # j => s[i][2] # s[j][2]
            /\ \A i \in 1..n : s[i][1] \in offer_price(factory_map[s[i][2]], r)
            /\ \A i \in 1..(n - 1) : s[i][1] <= s[i + 1][1]}

\* range_factory_list: at most MaxOffers of the Active factories with stock,
\* each with its offer, cheapest first; the entries are <<price, factory id>>
range_factory_list(factory_map, ids, r) ==
    LET eligible == {f \in ids : /\ get_factory_status(factory_map[f]) = "Active"
                                 /\ get_stock(factory_map[f], r) > 0}
        n == Min(Cardinality(eligible), MaxOffers)
        prices == UNION {offer_price(factory_map[f], r) : f \in eligible}
    IN  {s \in [1..n -> prices \X eligible] :
            /\ \A i, j \in 1..n : i # j => s[i][2] # s[j][2]
            /\ \A i \in 1..n : s[i][1] \in offer_price(factory_map[s[i][2]], r)
            /\ \A i \in 1..(n - 1) : s[i][1] <= s[i + 1][1]}

\* a deal loop in which only the winning factory receives its deal
deal_of_entry_winner_only(f, i, trade_result_list, deal_index, r, cash_burned_ratio) ==
    IF i = deal_index
    THEN deal(f, trade_result_list[i][1], r, trade_result_list[i][2],
              cash_burned_ratio)
    ELSE f

\* lines 335-364: the deal one sampled factory receives, entry i of the sample
deal_of_entry(f, i, trade_result_list, deal_index, r, cash_burned_ratio) ==
    LET result == IF i <= Len(trade_result_list) THEN trade_result_list[i][1]
                  ELSE Failed
        interval_relation == IF i <= Len(trade_result_list)
                             THEN trade_result_list[i][2] ELSE NoRelation
    IN  IF result = NotMatched \/ result = NotYet THEN f
        ELSE IF result = Failed /\ deal_index # 0 /\ i > deal_index
        THEN deal(f, result, r, AgentBelowFactory, cash_burned_ratio)
        ELSE deal(f, result, r, interval_relation, cash_burned_ratio)

\* a worker that takes the locks and goes on without start_round
W_Begin_without_start(p) ==
    /\ wk[p].pc = "begin"
    /\ ~factory_lock[p]
    /\ factory_lock' = [factory_lock EXCEPT ![p] = TRUE]
    /\ agents_lock' = agents_lock \cup {p}
    /\ wk' = [wk EXCEPT ![p].pc = "visit", ![p].index = 1]
    /\ UNCHANGED <<unitVars, phase_done, desire_cycles, round, total_trades, consecutive_zero_trades, round_trades, mpc,
                   agent_list, agents, agent_lock, preferences_lock, dpc,
                   new_demand, factories>>

\* factories.write(), agents.read(), start_round on every factory of the list
W_Begin(p) ==
    /\ wk[p].pc = "begin"
    /\ ~factory_lock[p]
    /\ factory_lock' = [factory_lock EXCEPT ![p] = TRUE]
    /\ agents_lock' = agents_lock \cup {p}
    /\ factories' = [f \in FactoryIds |->
                        IF f \in FactoriesOf(p)
                        THEN start_round(factories[f], wk[p].round)
                        ELSE factories[f]]
    /\ wk' = [wk EXCEPT ![p].pc = "visit", ![p].index = 1]
    /\ UNCHANGED <<unitVars, phase_done, desire_cycles, round, total_trades, consecutive_zero_trades, round_trades, mpc,
                   agent_list, agents, agent_lock, preferences_lock, dpc,
                   new_demand>>

\* the next agent of the list: its write lock, has_demand, the sampled offers
W_Visit(p) ==
    /\ wk[p].pc = "visit"
    /\ wk[p].index <= Len(agent_list)
    /\ LET a == agent_list[wk[p].index]
       IN  /\ try_write(agent_lock[a])
           /\ IF ~has_demand(agents[a], p)
              THEN /\ wk' = [wk EXCEPT ![p].index = @ + 1]
                   /\ UNCHANGED agent_lock
              ELSE /\ agent_lock' = [agent_lock EXCEPT ![a] = p]
                   /\ \E sample \in range_factory_list(factories, FactoriesOf(p),
                                                       wk[p].round) :
                        wk' = [wk EXCEPT ![p].pc = "negotiate",
                                         ![p].demand_visits = @ + 1,
                                         ![p].potential_factories = sample,
                                         ![p].trade_result_list = <<>>,
                                         ![p].offered_prices = <<>>,
                                         ![p].deal_index = 0]
    /\ UNCHANGED <<unitVars, phase_done, desire_cycles, round, total_trades, consecutive_zero_trades, round_trades, mpc,
                   agent_list, agents, factories, agents_lock, factory_lock,
                   preferences_lock, dpc, new_demand>>

\* lines 298-319: negotiate offer after offer until the first Success
W_Negotiate(p) ==
    /\ wk[p].pc = "negotiate"
    /\ LET a == agent_list[wk[p].index]
           prices == [i \in DOMAIN wk[p].potential_factories |->
                         wk[p].potential_factories[i][1]]
           out == negotiate_offers(agents[a], p, prices)
       IN  /\ wk' = [wk EXCEPT ![p].pc = "settle",
                               ![p].trade_result_list = out.results,
                               ![p].offered_prices = out.offered,
                               ![p].deal_index = out.deal_index,
                               ![p].trades_count =
                                   IF out.deal_index # 0 THEN @ + 1 ELSE @]
           /\ agents' = [agents EXCEPT ![a] = out.agent]
    /\ UNCHANGED <<unitVars, phase_done, desire_cycles, round, total_trades, consecutive_zero_trades, round_trades, mpc,
                   agent_list, factories, agents_lock, agent_lock, factory_lock,
                   preferences_lock, dpc, new_demand>>


\* whether the settling call takes the write lock of Agent.preferences:
\* handle_trade_success does, handle_trade_failure does in set_preference_detail
settling_writes_preferences(a, product_id, result, interval_relation, random_value) ==
    IF result[1] = "Success" THEN TRUE
    ELSE /\ random_value >= a.preferences[product_id].original_elastic
         /\ interval_relation # CashBurnedOut

\* lines 320-334: the one settling call of the visit
W_Settle(p) ==
    /\ wk[p].pc = "settle"
    /\ LET a == agent_list[wk[p].index]
           result == IF wk[p].deal_index # 0
                     THEN wk[p].trade_result_list[wk[p].deal_index][1]
                     ELSE Failed
       IN  \E random_value \in RandomValues,
              interval_relation \in FailureRelations(wk[p].trade_result_list) :
             /\ settling_writes_preferences(agents[a], p, result, interval_relation,
                                            random_value)
                    => preferences_lock[a] = {}
             /\ agents' = [agents EXCEPT ![a] =
                              logged(logger_ok, @,
                                     settling(@, p, result, interval_relation,
                                              wk[p].offered_prices, random_value))]
    /\ wk' = [wk EXCEPT ![p].pc = "deal", ![p].settlings = @ + 1]
    /\ UNCHANGED <<unitVars, phase_done, desire_cycles, round, total_trades, consecutive_zero_trades, round_trades, mpc,
                   agent_list, factories, agents_lock, agent_lock, factory_lock,
                   preferences_lock, dpc, new_demand>>

\* lines 335-365: deal on every sampled factory; the agent's guard is dropped
W_Deal(p) ==
    /\ wk[p].pc = "deal"
    /\ LET a == agent_list[wk[p].index]
           sample == wk[p].potential_factories
           entry(f) == CHOOSE i \in DOMAIN sample : sample[i][2] = f
       IN  /\ \E cash_burned_ratio \in MarketCashBurnedRatios :
                factories' = [f \in FactoryIds |->
                    IF \E i \in DOMAIN sample : sample[i][2] = f
                    THEN logged(logger_ok, factories[f],
                                deal_of_entry(factories[f], entry(f),
                                    wk[p].trade_result_list, wk[p].deal_index,
                                    wk[p].round, cash_burned_ratio))
                    ELSE factories[f]]
           /\ agent_lock' = [agent_lock EXCEPT ![a] = release_write(@)]
    /\ wk' = [wk EXCEPT ![p].pc = "visit",
                        ![p].index = @ + 1,
                        ![p].potential_factories = <<>>,
                        ![p].trade_result_list = <<>>,
                        ![p].offered_prices = <<>>,
                        ![p].deal_index = 0,
                        ![p].settlings = 0]
    /\ UNCHANGED <<unitVars, phase_done, desire_cycles, round, total_trades, consecutive_zero_trades, round_trades, mpc,
                   agent_list, agents, agents_lock, factory_lock, preferences_lock,
                   dpc, new_demand>>

\* the agent list is exhausted: the guards on both lists are dropped
W_Finish(p) ==
    /\ wk[p].pc = "visit"
    /\ wk[p].index > Len(agent_list)
    /\ agents_lock' = agents_lock \ {p}
    /\ factory_lock' = [factory_lock EXCEPT ![p] = FALSE]
    /\ wk' = [wk EXCEPT ![p].pc = "count"]
    /\ UNCHANGED <<unitVars, phase_done, desire_cycles, round, total_trades, consecutive_zero_trades, round_trades, mpc,
                   agent_list, agents, factories, agent_lock, preferences_lock, dpc,
                   new_demand>>

\* a worker that stores its count in the round's counter instead of adding it
W_Count_overwriting(p) ==
    /\ wk[p].pc = "count"
    /\ round_trades' = wk[p].trades_count
    /\ wk' = [wk EXCEPT ![p].pc = "done"]
    /\ UNCHANGED <<unitVars, phase_done, desire_cycles, round, total_trades, consecutive_zero_trades, mpc, agent_list,
                   agents, factories, agents_lock, agent_lock, factory_lock,
                   preferences_lock, dpc, new_demand>>

\* lines 190-191: the worker adds its count to the round's counter
W_Count(p) ==
    /\ wk[p].pc = "count"
    /\ round_trades' = round_trades + wk[p].trades_count
    /\ wk' = [wk EXCEPT ![p].pc = "done"]
    /\ UNCHANGED <<unitVars, phase_done, desire_cycles, round, total_trades, consecutive_zero_trades, mpc, agent_list,
                   agents, factories, agents_lock, agent_lock, factory_lock,
                   preferences_lock, dpc, new_demand>>

(* ---- a desire thread: Agent::desire ----------------------------------- *)
\* insert_demand over the products of one category in the shuffled order:
\* the first one not yet demanded whose draw exceeds its elasticity, 0 for None
RECURSIVE insert_demand(_, _, _, _)
insert_demand(order, preference, demand, draws) ==
    IF order = <<>> THEN 0
    ELSE LET product_id == Head(order)
         IN  IF product_id \in demand
             THEN insert_demand(Tail(order), preference, demand, draws)
             ELSE IF draws[product_id] > preference[product_id].original_elastic
             THEN product_id
             ELSE insert_demand(Tail(order), preference, demand, draws)

\* the products of a category the agent has a Preference for
ProductsIn(a, category) ==
    {p \in DOMAIN a.preferences : product_category[p] = category}

\* lines 119-129: the read guard on the preferences and the products picked
D_Wake(a) ==
    /\ dpc[a] = "sleep"
    /\ desire_cycles[a] < DesireCycles[a]
    /\ desire_cycles' = [desire_cycles EXCEPT ![a] = @ + 1]
    /\ IF \E c \in DesireCategories : ProductsIn(agents[a], c) = {}
       THEN /\ dpc' = [dpc EXCEPT ![a] = "dead"]
            /\ UNCHANGED <<preferences_lock, new_demand>>
       ELSE /\ preferences_lock' = [preferences_lock EXCEPT ![a] = @ \cup {"desire"}]
            /\ \E draws \in [Products -> DemandDraws] :
               \E order \in [DesireCategories -> UNION {Perms(ProductsIn(agents[a], c)) :
                                                        c \in DesireCategories}] :
                 /\ \A c \in DesireCategories :
                        order[c] \in Perms(ProductsIn(agents[a], c))
                 /\ new_demand' = [new_demand EXCEPT ![a] =
                        {insert_demand(order[c], agents[a].preferences,
                                       agents[a].demand, draws) :
                            c \in DesireCategories} \ {0}]
            /\ dpc' = [dpc EXCEPT ![a] = "picked"]
    /\ UNCHANGED <<unitVars, phase_done, round, total_trades, consecutive_zero_trades, round_trades, mpc,
                   agent_list, agents, factories, wk, agents_lock, agent_lock,
                   factory_lock>>

\* a desire thread that writes the picked products over the demand
D_Insert_replacing(a) ==
    /\ dpc[a] = "picked"
    /\ agents' = [agents EXCEPT ![a].demand = new_demand[a]]
    /\ preferences_lock' = [preferences_lock EXCEPT ![a] = @ \ {"desire"}]
    /\ new_demand' = [new_demand EXCEPT ![a] = {}]
    /\ dpc' = [dpc EXCEPT ![a] = "sleep"]
    /\ UNCHANGED <<unitVars, phase_done, desire_cycles, round, total_trades, consecutive_zero_trades, round_trades, mpc,
                   agent_list, factories, wk, agents_lock, agent_lock, factory_lock>>

\* lines 131-135: the picked products become demand; the guards are dropped
D_Insert(a) ==
    /\ dpc[a] = "picked"
    /\ agents' = [agents EXCEPT ![a].demand = @ \cup new_demand[a]]
    /\ preferences_lock' = [preferences_lock EXCEPT ![a] = @ \ {"desire"}]
    /\ new_demand' = [new_demand EXCEPT ![a] = {}]
    /\ dpc' = [dpc EXCEPT ![a] = "sleep"]
    /\ UNCHANGED <<unitVars, phase_done, desire_cycles, round, total_trades, consecutive_zero_trades, round_trades, mpc,
                   agent_list, factories, wk, agents_lock, agent_lock, factory_lock>>

Next ==
    \/ M_Spawn
    \/ M_Join
    \/ M_Settle
    \/ M_Ubi
    \/ M_Check
    \/ \E p \in Products : W_Begin(p)
    \/ \E p \in Products : W_Visit(p)
    \/ \E p \in Products : W_Negotiate(p)
    \/ \E p \in Products : W_Settle(p)
    \/ \E p \in Products : W_Deal(p)
    \/ \E p \in Products : W_Finish(p)
    \/ \E p \in Products : W_Count(p)
    \/ \E a \in AgentIds : D_Wake(a)
    \/ \E a \in AgentIds : D_Insert(a)

Spec == Init /\ [][Next]_vars


\* fair scheduling: a thread that can take its next step eventually takes it.
\* The preferences lock is fair to a blocked writer (readers arriving later
\* wait behind it), hence the strong fairness of the settling step.
Fairness ==
    /\ WF_vars(M_Spawn)
    /\ WF_vars(M_Join)
    /\ WF_vars(M_Settle)
    /\ WF_vars(M_Ubi)
    /\ WF_vars(M_Check)
    /\ \A p \in Products :
         /\ WF_vars(W_Begin(p))
         /\ WF_vars(W_Visit(p))
         /\ WF_vars(W_Negotiate(p))
         /\ SF_vars(W_Settle(p))
         /\ WF_vars(W_Deal(p))
         /\ WF_vars(W_Finish(p))
         /\ WF_vars(W_Count(p))
    /\ \A a \in AgentIds : WF_vars(D_Wake(a)) /\ WF_vars(D_Insert(a))

\* the market whose second agent never picks a product: an elasticity of 1.0
\* is above every draw of insert_demand
FairElasticities == <<{50}, {100}>>

InitFair == MarketInit(FairElasticities)

FairSpec == InitFair /\ [][Next]_vars /\ Fairness

(* ---- SpecOffers: range_factory_list on a list of four factories -------- *)
\* the factories of the list handed to range_factory_list
OfferFactoryIds == 1..4

\* the round the offers are asked for
OfferRound == 1

\* lower ends of the supply ranges of the list's factories, thousandths
OfferLowers == {3000000, 5000000}

\* a factory of the list: "new" has no stock entry for the round (get_stock
\* answers 10), "started" has produced its first unit, "sold" has sold it
OfferFactory(lower, history) ==
    LET new == FactoryNew(lower, 7000000, 3000000, 60000000, 50, 50)
        started == start_round(new, OfferRound)
    IN  IF history = "new" THEN new
        ELSE IF history = "started" THEN started
        ELSE deal(started, Success(lower), OfferRound, Overlapping(lower), 0)

InitOffers ==
    /\ AgentIdle
    /\ FactoryIdle
    /\ MarketIdle
    /\ \E lower \in [OfferFactoryIds -> OfferLowers],
          history \in [OfferFactoryIds -> {"new", "started", "sold"}] :
         ofactories = [f \in OfferFactoryIds |->
                          OfferFactory(lower[f], history[f])]
    /\ oinfos = <<>>
    /\ ocalled = FALSE

\* range_factory_list(factory_list, round)
O_RangeFactoryList ==
    /\ ~ocalled
    /\ oinfos' \in range_factory_list(ofactories, OfferFactoryIds, OfferRound)
    /\ ocalled' = TRUE
    /\ UNCHANGED <<ofactories, agentVars, factoryVars, marketVars>>

NextOffers == O_RangeFactoryList

SpecOffers == InitOffers /\ [][NextOffers]_vars

(* ---- SpecWorkers: the worker threads of one round, spawn to join ------- *)
\* the demand the desire threads have left each agent with when the workers
\* are spawned, and the initial ranges of the agents and the factories
WorkerDemands == {{}, {1}, {1, 2}}
WorkerPrefRanges == <<{<<4000000, 8000000>>},
                      {<<1000000, 2000000>>, <<3000000, 4000000>>}>>
WorkerSupplyRanges == <<{<<3500000, 7000000>>, <<5000000, 7000000>>},
                        {<<5000000, 7000000>>}, {<<6000000, 7000000>>}>>

\* Market::run after the spawn of round 1: shuffled agent list, workers begun
InitWorkers ==
    /\ AgentIdle
    /\ FactoryIdle
    /\ OffersIdle
    /\ logger_ok \in BOOLEAN
    /\ \E demand \in [AgentIds -> WorkerDemands],
          pr \in [AgentIds -> UNION {WorkerPrefRanges[a] : a \in AgentIds}],
          sr \in [FactoryIds -> UNION {WorkerSupplyRanges[f] : f \in FactoryIds}],
          order \in Perms(AgentIds) :
         /\ \A a \in AgentIds : pr[a] \in WorkerPrefRanges[a]
         /\ \A f \in FactoryIds : sr[f] \in WorkerSupplyRanges[f]
         /\ agents = [a \in AgentIds |->
                [AgentNew(InitialAgentCash, [p \in Products |->
                     from_product(6000000, 50, pr[a][1], pr[a][2])])
                 EXCEPT !.demand = demand[a]]]
         /\ factories = [f \in FactoryIds |->
                FactoryNew(sr[f][1], sr[f][2], 3000000, 60000000, 50, 50)]
         /\ agent_list = order
    /\ round = 1
    /\ total_trades = 0
    /\ consecutive_zero_trades = 0
    /\ round_trades = 0
    /\ mpc = "join"
    /\ wk = [p \in Products |-> [NoWorker EXCEPT !.pc = "begin", !.round = 1]]
    /\ agents_lock = {}
    /\ agent_lock = [a \in AgentIds |-> 0]
    /\ factory_lock = [p \in Products |-> FALSE]
    /\ preferences_lock = [a \in AgentIds |-> {}]
    /\ dpc = [a \in AgentIds |-> "sleep"]
    /\ new_demand = [a \in AgentIds |-> {}]
    /\ desire_cycles = [a \in AgentIds |-> 0]
    /\ phase_done = [spawn |-> 1, join |-> 0, settle |-> 0, ubi |-> 0, check |-> 0,
                     tally |-> <<>>, broke |-> FALSE]

NextWorkers ==
    \/ \E p \in Products : W_Begin(p)
    \/ \E p \in Products : W_Visit(p)
    \/ \E p \in Products : W_Negotiate(p)
    \/ \E p \in Products : W_Settle(p)
    \/ \E p \in Products : W_Deal(p)
    \/ \E p \in Products : W_Finish(p)
    \/ \E p \in Products : W_Count(p)

SpecWorkers == InitWorkers /\ [][NextWorkers]_vars

(* ---- SpecDesire: the desire threads of agents built from a catalog ----- *)
\* the products Market::new hands to Agent::new: with {1} the catalog has no
\* product of the category Clothing
DesireCatalogs == {{1}, {1, 2}}

\* original_elastic samples of the agents' preferences, hundredths
DesireElasticities == {1, 50}

InitDesire ==
    /\ AgentIdle
    /\ FactoryIdle
    /\ OffersIdle
    /\ logger_ok = TRUE
    /\ \E catalog \in DesireCatalogs, e \in [AgentIds -> DesireElasticities] :
         agents = [a \in AgentIds |->
                      AgentNew(InitialAgentCash, [p \in catalog |->
                          from_product(6000000, e[a], 4000000, 8000000)])]
    /\ factories = [f \in FactoryIds |->
                       FactoryNew(5000000, 7000000, 3000000, 60000000, 50, 50)]
    /\ agent_list = <<1, 2>>
    /\ round = 1
    /\ total_trades = 0
    /\ consecutive_zero_trades = 0
    /\ round_trades = 0
    /\ mpc = "spawn"
    /\ wk = [p \in Products |-> NoWorker]
    /\ agents_lock = {}
    /\ agent_lock = [a \in AgentIds |-> 0]
    /\ factory_lock = [p \in Products |-> FALSE]
    /\ preferences_lock = [a \in AgentIds |-> {}]
    /\ dpc = [a \in AgentIds |-> "sleep"]
    /\ new_demand = [a \in AgentIds |-> {}]
    /\ desire_cycles = [a \in AgentIds |-> 0]
    /\ phase_done = [spawn |-> 0, join |-> 0, settle |-> 0, ubi |-> 0, check |-> 0,
                     tally |-> <<>>, broke |-> FALSE]

NextDesire ==
    \/ \E a \in AgentIds : D_Wake(a)
    \/ \E a \in AgentIds : D_Insert(a)

SpecDesire == InitDesire /\ [][NextDesire]_vars

(* ---- SpecLogger: one round, its settlement and its end-of-round logs --- *)
NextLogger ==
    \/ \E p \in Products : W_Begin(p)
    \/ \E p \in Products : W_Visit(p)
    \/ \E p \in Products : W_Negotiate(p)
    \/ \E p \in Products : W_Settle(p)
    \/ \E p \in Products : W_Deal(p)
    \/ \E p \in Products : W_Finish(p)
    \/ \E p \in Products : W_Count(p)
    \/ M_Join
    \/ M_Settle

SpecLogger == InitWorkers /\ [][NextLogger]_vars

(* ----------------------------------------------------------------------- *)
(* Properties of the market                                                *)
(* ----------------------------------------------------------------------- *)
\* the agent a worker is visiting
CurrentAgent(p) == agent_list[wk[p].index]

\* the worker is inside a visit: negotiating, settling or dealing
Busy(p) == wk[p].pc \in {"negotiate", "settle", "deal"}

\* the worker has been spawned and has not returned yet
Running(p) == wk[p].pc \notin {"idle", "done"}

\* a step that lowers an agent's cash is the settling of a Success whose price
\* the agent could pay
DebitIsPaidTrade ==
    \A a \in AgentIds :
        agents'[a].cash < agents[a].cash =>
            \E p \in Products :
                /\ wk[p].pc = "settle"
                /\ CurrentAgent(p) = a
                /\ wk[p].deal_index # 0
                /\ agents[a].cash >= wk[p].offered_prices[wk[p].deal_index]
                /\ agents'[a].cash =
                       agents[a].cash - wk[p].offered_prices[wk[p].deal_index]

\* C1: under every interleaving of the workers, the desire threads and the
\* main thread's ubi, no agent's cash is ever negative, and cash is lowered
\* only by settling a trade whose price the agent's cash covers at that moment.
C1_CashNeverNegative ==
    /\ [](\A a \in AgentIds : agents[a].cash >= 0)
    /\ [][DebitIsPaidTrade]_vars

\* an agent that has paid for a trade is refused another one for lack of cash
C1_Witness ==
    \E p \in Products :
        /\ wk[p].pc = "settle"
        /\ agents[CurrentAgent(p)].cash < InitialAgentCash
        /\ \E i \in DOMAIN wk[p].trade_result_list :
               wk[p].trade_result_list[i] = <<Failed, CashBurnedOut>>

\* C4: from has_demand to the end of settling (and of the deals) a worker
\* holds the write lock of the agent it visits, so no two workers are inside
\* a visit of the same agent at once.
C4_VisitUnderAgentLock ==
    /\ \A p \in Products : Busy(p) => agent_lock[CurrentAgent(p)] = p
    /\ \A p, q \in Products :
           (p # q /\ Busy(p) /\ Busy(q)) => CurrentAgent(p) # CurrentAgent(q)

\* two workers are inside visits of different agents at the same time while
\* a settled trade is being dealt
C4_Witness ==
    \E p, q \in Products :
        /\ p # q
        /\ wk[p].pc = "deal" /\ wk[p].deal_index # 0
        /\ Busy(q)
        /\ CurrentAgent(p) # CurrentAgent(q)

\* C5: once round r's settlement, ubi or termination check has run, every
\* worker of round r has returned; and a worker of round r + 1 exists only
\* after round r's settlement, ubi and termination check have all completed.
C5_RoundBarrier ==
    \A p \in Products :
        /\ (wk[p].pc # "idle" /\ (\/ phase_done.settle >= wk[p].round
                                  \/ phase_done.ubi >= wk[p].round
                                  \/ phase_done.check >= wk[p].round))
               => wk[p].pc = "done"
        /\ wk[p].pc # "idle"
               => /\ phase_done.settle >= wk[p].round - 1
                  /\ phase_done.ubi >= wk[p].round - 1
                  /\ phase_done.check >= wk[p].round - 1

\* a worker of the second round is negotiating after the first round's check
C5_Witness ==
    \E p \in Products :
        /\ wk[p].round = 2
        /\ wk[p].pc = "negotiate"
        /\ phase_done.check = 1

\* C6: under fair scheduling every spawned worker returns and every round
\* whose workers were spawned reaches its settlement.
C6_NoIndefiniteBlocking ==
    /\ \A p \in Products : Running(p) ~> (wk[p].pc = "done")
    /\ (mpc = "join") ~> (mpc = "ubi")

\* a worker waits for an agent whose lock another worker holds, and that
\* worker's settling waits for the agent's desire thread to drop its read guard
C6_Witness ==
    \E p, q \in Products :
        /\ p # q
        /\ wk[p].pc = "visit" /\ wk[p].index <= Len(agent_list)
        /\ agent_lock[CurrentAgent(p)] = q
        /\ wk[q].pc = "settle"
        /\ preferences_lock[CurrentAgent(q)] # {}

\* what the termination check is said to test
TerminationClaimed ==
    \/ \A a \in AgentIds : agents[a].cash < 10
    \/ round > 8000
    \/ consecutive_zero_trades >= 20

\* the step of the check: the loop is left exactly when the claimed condition
\* holds, and goes on to the next round otherwise
CheckDecides ==
    mpc = "check" =>
        /\ (mpc' = "done") <=> TerminationClaimed
        /\ mpc' # "done" => round' = round + 1

\* C15: the termination check returns true exactly when every agent has
\* cash < 0.01, or the round is greater than 8000, or the consecutive
\* zero-trade rounds are >= 20; the round loop exits only when it returns true.
C15_TerminationCheck ==
    /\ [][CheckDecides]_vars
    /\ [][mpc' = "done" => (mpc = "check" \/ mpc = "done")]_vars

\* C15 witness: the run ended at round 8001 although an agent had cash and
\* the last round had trades: the round cap alone decided
C15_Witness ==
    /\ mpc = "done"
    /\ round = 8001
    /\ consecutive_zero_trades < 20
    /\ \E a \in AgentIds : agents[a].cash >= 10

\* the round counter moves only at the check, and by one
RoundStepsByOne ==
    round' # round => (mpc = "check" /\ mpc' = "spawn" /\ round' = round + 1)

\* C16: every run of the round loop terminates; rounds are numbered
\* consecutively from 1, the round number grows by exactly 1 per iteration,
\* and no round above the cap plus one (8001 in the source) is ever started.
C16_RunTerminates ==
    /\ <>(mpc = "done")
    /\ [](round >= 1 /\ round <= MaxRound + 1)
    /\ [](phase_done.spawn <= MaxRound + 1)
    /\ [][RoundStepsByOne]_vars

\* C16 witness: the run has ended after starting its last round, the round
\* after the cap, whose workers traded
C16_Witness ==
    /\ mpc = "done"
    /\ round = MaxRound + 1
    /\ phase_done.spawn = round
    /\ total_trades > 0

\* the prices of the sampled factories the visit negotiated: all of them up
\* to the first Success, all of the sample when none succeeded
PricesOffered(p) ==
    LET sample == wk[p].potential_factories
        k == IF wk[p].deal_index # 0 THEN wk[p].deal_index ELSE Len(sample)
    IN  [i \in 1..k |-> sample[i][1]]

\* the step in which worker p settles: the agent becomes what exactly one of
\* the two handlers makes of it, given the list of the prices offered
SettlingAppliesOneHandler(p) ==
    LET a == CurrentAgent(p)
        w == wk[p]
    IN  IF w.deal_index # 0
        THEN agents'[a] = handle_trade_success(agents[a], p, PricesOffered(p)[w.deal_index])
        ELSE \E rel \in FailureRelations(w.trade_result_list),
                random_value \in RandomValues :
                 agents'[a] = handle_trade_failure(agents[a], p, rel,
                                                   PricesOffered(p), random_value)

RECURSIVE TradesOf(_)
TradesOf(S) ==
    IF S = {} THEN 0
    ELSE LET p == CHOOSE q \in S : TRUE
         IN  wk[p].trades_count + TradesOf(S \ {p})

\* C22: the round's trade counter holds the sum of the counts of the workers
\* that have added theirs, each exactly once; once all workers are joined it
\* is the sum of all per-worker counts of the round.
C22_RoundTradesIsSum ==
    /\ round_trades = TradesOf({p \in Products : wk[p].pc = "done"})
    /\ mpc \in {"settle", "ubi", "check", "done"} =>
           round_trades = TradesOf(Products)

\* C22 witness: the workers are joined and each of them had counted a trade
C22_Witness ==
    /\ mpc = "settle"
    /\ \A p \in Products : wk[p].trades_count >= 1
    /\ round_trades = Cardinality(Products)

\* how often start_round has been called on factory f with round r, as the
\* factory's round queue records it
StartsOf(f, r) ==
    Cardinality({i \in DOMAIN factories[f].u64_list : factories[f].u64_list[i] = r})

\* the worker of factory f's product has called start_round in this round
StartedThisRound(f) ==
    LET p == factory_product[f]
    IN  wk[p].round = round /\ wk[p].pc \notin {"idle", "begin"}

\* a step that changes factory f is the start_round of its product's worker,
\* a deal of that worker after the start and before the settlement, or the
\* main thread's settlement after every worker has returned
FactoryTouched(f) ==
    LET p == factory_product[f]
    IN  factories'[f] # factories[f] =>
          \/ /\ wk[p].pc = "begin" /\ wk'[p].pc = "visit"
             /\ \A q \in Products \ {p} : wk'[q] = wk[q]
             /\ wk[p].round = round
             /\ StartsOf(f, round) = 0
             /\ phase_done.settle = round - 1
             /\ mpc' = mpc
          \/ /\ wk[p].pc = "deal" /\ wk'[p].pc = "visit"
             /\ \A q \in Products \ {p} : wk'[q] = wk[q]
             /\ factory_lock[p]
             /\ wk[p].round = round
             /\ StartsOf(f, round) = 1
             /\ phase_done.settle = round - 1
             /\ mpc' = mpc
          \/ /\ mpc = "settle" /\ mpc' = "ubi"
             /\ \A q \in Products : wk[q].pc = "done" /\ wk[q].round = round
             /\ wk' = wk
             /\ StartsOf(f, round) = 1

\* the settlement of a round happens once, as one step of the main thread
\* that applies settling_after_round to every factory
SettledOnce ==
    phase_done'.settle # phase_done.settle =>
        /\ mpc = "settle"
        /\ phase_done.settle = round - 1
        /\ phase_done'.settle = round
        /\ \A f \in FactoryIds :
               factories'[f] = settling_after_round(factories[f], round)

\* C23: for every factory and every round, start_round(r) is called exactly
\* once and before any deal for r, settling_after_round(r) exactly once and
\* after every deal for r, and the factory is changed only by the single
\* worker of its product and by the main thread's settlement.
C23_RoundLifecycle ==
    /\ [](\A f \in FactoryIds :
             /\ StartsOf(f, round) = IF StartedThisRound(f) THEN 1 ELSE 0
             /\ \A r \in 1..round : StartsOf(f, r) <= 1)
    /\ [](mpc \in {"ubi", "check", "done"} <=> phase_done.settle = round)
    /\ [][\A f \in FactoryIds : FactoryTouched(f)]_vars
    /\ [][SettledOnce]_vars

\* C23 witness: a factory started round 1, sold in it and was settled, and
\* has been started for round 2 by its product's worker
C23_Witness ==
    \E f \in FactoryIds :
        /\ round = 2
        /\ wk[factory_product[f]].pc = "visit"
        /\ factories[f].u64_list = <<1, 2>>
        /\ factories[f].accountant.bills[1].units_sold = 1
        /\ phase_done.settle = 1

\* the agent accepts the price: its negotiate answers Success
Accepts(a, p, price) == negotiate(agents[a], p, price)[1] = Success(price)

\* the visit of worker p: the sample is in ascending price order, the offers
\* were negotiated in that order, each once, up to the first Success, and the
\* Success is the cheapest sampled offer the agent accepts
VisitInOrder(p) ==
    LET w == wk[p]
        a == CurrentAgent(p)
        sample == w.potential_factories
        res == w.trade_result_list
        k == w.deal_index
    IN  /\ Busy(p) =>
              /\ \A i, j \in DOMAIN sample : i < j => sample[i][1] <= sample[j][1]
              /\ \A i, j \in DOMAIN sample : i # j => sample[i][2] # sample[j][2]
        /\ w.pc \in {"settle", "deal"} =>
              /\ Len(res) = IF k # 0 THEN k ELSE Len(sample)
              /\ \A i \in DOMAIN res : i # k => res[i][1][1] # "Success"
              /\ k # 0 => res[k][1] = Success(sample[k][1])
        /\ w.pc = "settle" =>
              /\ \A i \in DOMAIN res : res[i] = negotiate(agents[a], p, sample[i][1])
              /\ \A j \in DOMAIN sample :
                     Accepts(a, p, sample[j][1])
                         => (k # 0 /\ sample[k][1] <= sample[j][1])

\* a worker counts a trade only when the agent it visits has demand and one
\* of its negotiations succeeded, one trade per visit, and visits the agents
\* of the list one after the other
OneTradePerVisit(p) ==
    /\ wk'[p].trades_count # wk[p].trades_count =>
           /\ wk[p].pc = "negotiate" /\ wk'[p].pc = "settle"
           /\ has_demand(agents[CurrentAgent(p)], p)
           /\ wk'[p].deal_index # 0
           /\ wk'[p].trades_count = wk[p].trades_count + 1
    /\ (wk'[p].index # wk[p].index /\ wk[p].pc # "begin") =>
           wk'[p].index = wk[p].index + 1

\* C24: for each agent, product and round the sampled offers are negotiated
\* in ascending price order up to the first Success, so there is at most one
\* trade, at the lowest sampled offer the agent accepts, no offer is
\* negotiated twice, and a worker's trade count never exceeds the number of
\* agents with demand for its product that it has visited.
C24_FirstSuccessInPriceOrder ==
    /\ [](\A p \in Products :
            /\ VisitInOrder(p)
            /\ wk[p].trades_count <= wk[p].demand_visits
            /\ wk[p].demand_visits <= Cardinality(AgentIds))
    /\ [][\A p \in Products : OneTradePerVisit(p)]_vars

\* C24 witness: the cheapest offer was below the agent's range and refused,
\* the next one was accepted, and the worker has counted the trade
C24_Witness ==
    \E p \in Products :
        /\ wk[p].pc = "settle"
        /\ wk[p].deal_index = 2
        /\ wk[p].trade_result_list[1] = <<Failed, AgentAboveFactory>>
        /\ wk[p].trades_count = 1

\* the deal the claimed rule gives entry i of worker p's sample
ClaimedDeal(p, i, cash_burned_ratio) ==
    LET w == wk[p]
        f == factories[w.potential_factories[i][2]]
        res == w.trade_result_list
        k == w.deal_index
    IN  IF k = 0 THEN deal(f, res[i][1], w.round, res[i][2], cash_burned_ratio)
        ELSE IF i = k
        THEN deal(f, Success(w.potential_factories[i][1]), w.round, res[i][2],
                  cash_burned_ratio)
        ELSE IF i < k THEN deal(f, Failed, w.round, res[i][2], cash_burned_ratio)
        ELSE deal(f, Failed, w.round, AgentBelowFactory, cash_burned_ratio)

\* the step in which worker p deals: every sampled factory becomes what its
\* claimed deal makes of it, every other factory stays as it was
DealsAsClaimed(p) ==
    LET sample == wk[p].potential_factories
    IN  (wk[p].pc = "deal" /\ wk'[p].pc = "visit") =>
          \E cash_burned_ratio \in MarketCashBurnedRatios :
            /\ \A i \in DOMAIN sample :
                   factories'[sample[i][2]] = ClaimedDeal(p, i, cash_burned_ratio)
            /\ \A f \in FactoryIds :
                   (\A i \in DOMAIN sample : sample[i][2] # f)
                       => factories'[f] = factories[f]

\* C25: after the settling of a visit, deal is applied to every sampled
\* factory: the winner receives Success with its actual relation, the
\* factories negotiated before the winner Failed with their actual relation,
\* the factories after the winner Failed with AgentBelowFactory, and without
\* a winner every sampled factory its true outcome and relation.
C25_DealOnEverySampledFactory ==
    [][\A p \in Products : DealsAsClaimed(p)]_vars

\* C25 witness: the deals of a visit are done; the cheaper factory, refused
\* before the winner as below the agent's range, kept its unit and raised its
\* range, and the winner sold its unit
C25_Witness ==
    \E p \in Products : \E f, g \in FactoriesOf(p) :
        /\ wk[p].pc = "visit"
        /\ wk[p].trades_count = 1
        /\ factories[f].amount[1] = 1
        /\ factories[f].supply_price_range[1] = 3535000
        /\ factories[g].amount[1] = 0
        /\ factories[g].cash = 60000000 - 3000000 + 5000000

\* how many of the most recent rounds in a row had a trade total of 0
RECURSIVE TrailingZeros(_)
TrailingZeros(tally) ==
    IF tally = <<>> THEN 0
    ELSE IF tally[Len(tally)] # 0 THEN 0
    ELSE 1 + TrailingZeros(SubSeq(tally, 1, Len(tally) - 1))

\* C30: the zero-trade counter is the number of the most recent consecutive
\* rounds whose trade total was 0, a round with a trade resets it; the run
\* ends on the zero-trade ground at the end of the 20th consecutive
\* zero-trade round, and goes on while the counter is below 20.
C30_ZeroTradeCounter ==
    /\ consecutive_zero_trades = TrailingZeros(phase_done.tally)
    /\ mpc \in {"spawn", "join", "paced"} => consecutive_zero_trades < 20
    /\ mpc = "done" =>
           /\ consecutive_zero_trades = 20
           /\ Len(phase_done.tally) = round
           /\ \A r \in (round - 19)..round : phase_done.tally[r] = 0

\* C30 witness: the counter was reset by the trades of round 2, and the run
\* ended at the end of round 22, the 20th zero-trade round in a row
C30_Witness ==
    /\ mpc = "done"
    /\ round = 22
    /\ phase_done.tally[1] = 0
    /\ phase_done.tally[2] > 0
    /\ consecutive_zero_trades = 20

\* C31: whenever every agent's cash is below 0.01 once a round's trading has
\* completed, the run ends at that round's termination check.
C31_BrokeAgentsEndRun ==
    [][(mpc = "check" /\ phase_done.broke) => mpc' = "done"]_vars

\* the factories of the handed list that are active and have stock
Qualifying ==
    {f \in OfferFactoryIds : /\ get_factory_status(ofactories[f]) = "Active"
                             /\ get_stock(ofactories[f], OfferRound) > 0}

SettledAgents(p) ==
    LET a == agent_list[wk[p].index]
        result == IF wk[p].deal_index # 0
                  THEN wk[p].trade_result_list[wk[p].deal_index][1]
                  ELSE Failed
    IN  {settling(agents[a], p, result, interval_relation,
                  wk[p].offered_prices, random_value) :
            random_value \in RandomValues,
            interval_relation \in FailureRelations(wk[p].trade_result_list)}

\* the factories a worker's deal loop leaves, over the draws of the loop
DealtFactories(p) ==
    LET sample == wk[p].potential_factories
        entry(f) == CHOOSE i \in DOMAIN sample : sample[i][2] = f
    IN  {[f \in FactoryIds |->
            IF \E i \in DOMAIN sample : sample[i][2] = f
            THEN deal_of_entry(factories[f], entry(f), wk[p].trade_result_list,
                               wk[p].deal_index, wk[p].round, cash_burned_ratio)
            ELSE factories[f]] :
         cash_burned_ratio \in MarketCashBurnedRatios}

\* C32: a logging-sink error never aborts the round and never suppresses the
\* state change it accompanies: with a sink that answers Err to every event,
\* the settling call still leaves the agent its success or failure handling
\* gives (range reshaped, cash paid, demand removed), the deal loop still
\* leaves every sampled factory what its deal gives, and the end-of-round
\* logging still hands the settled factories on to the rest of the round.
C32_LoggerErrorsOnlyPrinted ==
    [][~logger_ok =>
          /\ \A p \in Products :
                /\ (wk[p].pc = "settle" /\ wk'[p] # wk[p]) =>
                      /\ wk'[p].pc = "deal"
                      /\ agents'[agent_list[wk[p].index]] \in SettledAgents(p)
                /\ (wk[p].pc = "deal" /\ wk'[p] # wk[p]) =>
                      /\ wk'[p].pc = "visit"
                      /\ factories' \in DealtFactories(p)
          /\ mpc = "settle" =>
                /\ mpc' = "ubi"
                /\ factories' = [f \in FactoryIds |->
                                    settling_after_round(factories[f], round)]]_vars

\* the sink fails; agent 2 was refused on both products and kept its cash: it
\* gave up product 1 and had its range for product 2 reshaped; a factory's
\* range was moved by a deal; the round's settlement and logging are done
C32_Witness ==
    /\ ~logger_ok
    /\ mpc = "ubi"
    /\ phase_done.settle = 1
    /\ agents[2].cash = InitialAgentCash
    /\ agents[2].demand = {2}
    /\ agents[2].preferences[2].current_range \notin WorkerPrefRanges[2]
    /\ \E f \in FactoryIds : factories[f].supply_price_range \notin WorkerSupplyRanges[f]

\* the factories a worker has sampled for the agent it is visiting
Sampled(p) ==
    IF wk[p].pc \in {"negotiate", "settle", "deal"}
    THEN {wk[p].potential_factories[i][2] : i \in DOMAIN wk[p].potential_factories}
    ELSE {}

\* the remaining-stock counter of every started round is within 0 and the
\* round's initial stock, and every sampled factory has units left
StockWithinRound ==
    /\ \A f \in FactoryIds : \A r \in DOMAIN factories[f].amount :
          /\ factories[f].amount[r] >= 0
          /\ factories[f].amount[r] <= factories[f].accountant.bills[r].initial_stock
    /\ \A p \in Products : \A f \in Sampled(p) :
          /\ wk[p].round \in DOMAIN factories[f].amount
          /\ factories[f].amount[wk[p].round] > 0

\* a factory whose cash rises had a unit left and has one unit less
SaleTakesUnit ==
    \A f \in FactoryIds :
        factories'[f].cash > factories[f].cash =>
            LET r == wk[factory_product[f]].round
            IN  /\ r \in DOMAIN factories[f].amount
                /\ factories[f].amount[r] > 0
                /\ factories'[f].amount[r] = factories[f].amount[r] - 1

\* C35: within a round the Success deals applied to a factory never exceed
\* its initial stock for the round: the remaining-stock counter stays within
\* 0 and the initial stock, every Success deal takes exactly one unit from a
\* positive counter, and no factory with 0 remaining stock is offered to an
\* agent or sells a unit.
C35_SalesWithinStock ==
    [][StockWithinRound /\ StockWithinRound' /\ SaleTakesUnit]_vars

\* C35 witness: a factory of product 1 has sold its stock of the round and
\* the worker's next agent is offered the other factory only
C35_Witness ==
    /\ wk[1].pc = "negotiate"
    /\ Sampled(1) # {}
    /\ \E f \in FactoriesOf(1) :
          /\ f \notin Sampled(1)
          /\ 1 \in DOMAIN factories[f].amount
          /\ factories[f].amount[1] = 0
          /\ factories[f].accountant.bills[1].initial_stock > 0

RECURSIVE CashOf(_, _)
\* the cash of the agents or factories S of the map m, added up
CashOf(m, S) ==
    IF S = {} THEN 0
    ELSE LET x == CHOOSE y \in S : TRUE
         IN  m[x].cash + CashOf(m, S \ {x})

RECURSIVE ProductionCosts(_, _)
\* what the factories S have paid for the production of round r
ProductionCosts(S, r) ==
    IF S = {} THEN 0
    ELSE LET f == CHOOSE y \in S : TRUE
             paid == IF r \in DOMAIN factories[f].accountant.bills
                     THEN factories[f].accountant.bills[r].total_production
                              * factories[f].product_cost
                     ELSE 0
         IN  paid + ProductionCosts(S \ {f}, r)

\* the price of the trade worker p has settled with the agent and not yet
\* dealt to the factory
PriceInFlight(p) ==
    IF wk[p].pc = "deal" /\ wk[p].deal_index # 0
    THEN wk[p].trade_result_list[wk[p].deal_index][1][2]
    ELSE 0

\* agent cash plus factory cash, production costs excluded, with the prices
\* on their way from an agent to a factory
TradingMoney ==
    CashOf(agents, AgentIds) + CashOf(factories, FactoryIds)
        + ProductionCosts(FactoryIds, 1)
        + PriceInFlight(1) + PriceInFlight(2)

\* the settling and the deals of one visit move the trade's price from the
\* visited agent to the winning factory and no other cash
OnePayerOnePayee ==
    \A p \in Products :
        LET a == agent_list[wk[p].index]
            won == wk[p].deal_index # 0
            price == wk[p].trade_result_list[wk[p].deal_index][1][2]
            winner == wk[p].potential_factories[wk[p].deal_index][2]
            payers == {b \in AgentIds : agents'[b].cash # agents[b].cash}
            payees == {f \in FactoryIds : factories'[f].cash # factories[f].cash}
        IN  /\ (wk[p].pc = "settle" /\ wk'[p].pc = "deal") =>
                  /\ payees = {}
                  /\ IF won THEN /\ payers = {a}
                                 /\ agents'[a].cash = agents[a].cash - price
                     ELSE payers = {}
            /\ (wk[p].pc = "deal" /\ wk'[p].pc = "visit") =>
                  /\ payers = {}
                  /\ IF won THEN /\ payees = {winner}
                                 /\ factories'[winner].cash
                                        = factories[winner].cash + price
                     ELSE payees = {}

\* C36: money is conserved by trading: for every successful trade at price p
\* exactly one agent's cash decreases by p and exactly one factory's cash
\* increases by p, so that during a round's trading phase, production costs
\* excluded, the sum of all agent cash and all factory cash is unchanged.
C36_TradingConservesMoney ==
    [][TradingMoney' = TradingMoney /\ OnePayerOnePayee]_vars

\* C36 witness: both workers have finished a visit with a trade; the agents
\* have paid and the factories have been credited
C36_Witness ==
    /\ \A p \in Products : wk[p].trades_count >= 1 /\ wk[p].pc = "visit"
    /\ \E a \in AgentIds : agents[a].cash < InitialAgentCash
    /\ \E f \in FactoriesOf(1) : factories[f].cash > factories[f].accountant.bills[1].cash
    /\ \E f \in FactoriesOf(2) : factories[f].cash > factories[f].accountant.bills[1].cash

\* worker p is between its has_demand check and the end of its visit
Visiting(p) == wk[p].pc \in {"negotiate", "settle", "deal"}

\* the agent a visiting worker found with demand has it until its settling
\* call, and no negotiation of the visit returned NotMatched
FoundDemandStays ==
    \A p \in Products :
        Visiting(p) =>
            /\ agent_lock[agent_list[wk[p].index]] = p
            /\ wk[p].pc = "negotiate" => has_demand(agents[agent_list[wk[p].index]], p)
            /\ \A i \in DOMAIN wk[p].trade_result_list :
                  wk[p].trade_result_list[i][1] # NotMatched

\* a step that takes product p out of agent a's demand is the settling call
\* of the worker of p, which holds the agent's write lock
RemovedBySettlement ==
    \A a \in AgentIds : \A p \in agents[a].demand \ agents'[a].demand :
        /\ wk[p].pc = "settle"
        /\ wk'[p].pc = "deal"
        /\ agent_list[wk[p].index] = a
        /\ agent_lock[a] = p

\* C39: the desire process only ever adds demand entries; an entry is removed
\* only by the owning agent's settlement while that agent's write lock is
\* held. Hence, under any interleaving with desire processes and other
\* workers, an agent a worker found with demand still has it when negotiate
\* runs, and negotiate never returns NotMatched inside a worker pass.
C39_DemandStaysUntilSettled ==
    [][FoundDemandStays /\ FoundDemandStays' /\ RemovedBySettlement]_vars

\* C39 witness: a worker has negotiated for an agent whose desire thread is
\* about to insert the products it picked, while the other worker visits
\* another agent
C39_Witness ==
    \E p, q \in Products :
        /\ p # q
        /\ wk[p].pc = "settle"
        /\ wk[p].trade_result_list # <<>>
        /\ dpc[agent_list[wk[p].index]] = "picked"
        /\ new_demand[agent_list[wk[p].index]] # {}
        /\ Visiting(q)

\* C40: the desire process keeps running for the whole life of the agent: on
\* every wake-up it handles each category independently, and for an agent
\* whose preference map has no entry for some category it skips that
\* category and still picks among the products of the other categories, so
\* that no wake-up ends the thread.
C40_DesireKeepsRunning ==
    [][\A a \in AgentIds :
          (dpc[a] = "sleep" /\ desire_cycles'[a] # desire_cycles[a]) =>
              /\ dpc'[a] = "picked"
              /\ new_demand'[a] \subseteq DOMAIN agents[a].preferences]_vars
====
